---- MODULE Spec2Model ----
(***************************************************************************)
(* One visitor session of the STCP visitor: an accepted client stream is   *)
(* classified by the prefix demux (muxer), handed to the HTTP / SOCKS4 /   *)
(* SOCKS5 / TARGET handler, the handler dials the origin through the       *)
(* tunnel dialer (DialContext) and the two streams are joined.             *)
(*                                                                         *)
(* Bytes are the integers 0..255; a byte string is a sequence of them.     *)
(***************************************************************************)
EXTENDS Integers, Sequences, FiniteSets, TLC

(***************************************************************************)
(* Bounds of the model.                                                    *)
(***************************************************************************)
\* the most bytes one Read on the underlying socket delivers
MaxRead == 2
\* the number of bytes the origin sends back through the tunnel
MaxOrigin == 2
\* the number of payload bytes the client sends after its protocol header
MaxPayload == 2

(***************************************************************************)
(* Byte strings used on the wire.                                          *)
(***************************************************************************)
SP == <<32>>
B_GET == <<71, 69, 84>>
B_HEAD == <<72, 69, 65, 68>>
B_POST == <<80, 79, 83, 84>>
B_PUT == <<80, 85, 84>>
B_PATCH == <<80, 65, 84, 67, 72>>
B_DELETE == <<68, 69, 76, 69, 84, 69>>
B_CONNECT == <<67, 79, 78, 78, 69, 67, 84>>
B_OPTIONS == <<79, 80, 84, 73, 79, 78, 83>>
B_TRACE == <<84, 82, 65, 67, 69>>
\* "PRI * HTTP/2.0"
B_HTTP2 == <<80, 82, 73, 32, 42, 32, 72, 84, 84, 80, 47, 50, 46, 48>>
\* "TARGET "
B_TARGET == <<84, 65, 82, 71, 69, 84, 32>>
\* ";"
SEMI == 59

\* the prefixes of a byte string, the empty one and the string itself included
Prefixes(s) == {SubSeq(s, 1, n) : n \in 0..Len(s)}

IsPrefix(p, s) == Len(p) <= Len(s) /\ SubSeq(s, 1, Len(p)) = p

(***************************************************************************)
(* The pattern table generated for the demux.                              *)
(***************************************************************************)
PatternHTTP ==
  {m \o SP : m \in {B_GET, B_HEAD, B_POST, B_PUT, B_PATCH, B_DELETE,
                    B_CONNECT, B_OPTIONS, B_TRACE}}

PatternHTTP2 == {B_HTTP2}

PatternSOCKS4 == {<<4, 1>>, <<4, 2>>}

\* a table that also takes the bare version byte for SOCKS5
PatternSOCKS5WithVersion == {<<5>>, <<5, 1>>, <<5, 2>>, <<5, 3>>}

PatternSOCKS5 == {<<5, 1>>, <<5, 2>>, <<5, 3>>}

(***************************************************************************)
(* Prefix trie.  A trie is the set of its nodes (each node is the byte     *)
(* path from the root) and the tag of each terminal node.                  *)
(***************************************************************************)
NewTrie == [nodes |-> {<< >>}, tag |-> << >>]

\* Put registers tag h at the node reached by prefix p, creating the path;
\* a second Put of the same prefix overwrites the tag.
Put(t, p, h) ==
  [nodes |-> t.nodes \cup Prefixes(p),
   tag |-> [q \in (DOMAIN t.tag) \cup {p} |-> IF q = p THEN h ELSE t.tag[q]]]

RECURSIVE HandlePrefix(_, _, _)
\* HandlePrefix puts every prefix of the set ps with the same handler tag
HandlePrefix(t, handler, ps) ==
  IF ps = {} THEN t
  ELSE LET p == CHOOSE x \in ps : TRUE
       IN HandlePrefix(Put(t, p, handler), handler, ps \ {p})

\* the trie the muxer closure is built over
handlerTrie ==
  HandlePrefix(
    HandlePrefix(
      HandlePrefix(
        HandlePrefix(NewTrie, "http", PatternHTTP \cup PatternHTTP2),
        "socks5", PatternSOCKS5),
      "socks4", PatternSOCKS4),
    "target", {B_TARGET})

\* the Put calls the muxer makes through HandlePrefix
Registrations ==
  [prefix : PatternHTTP \cup PatternHTTP2, handler : {"http"}]
  \cup [prefix : PatternSOCKS5, handler : {"socks5"}]
  \cup [prefix : PatternSOCKS4, handler : {"socks4"}]
  \cup [prefix : {B_TARGET}, handler : {"target"}]

\* the trie of the earlier copy of the visitor, which registers no SOCKS4
handlerTrieEarlier ==
  HandlePrefix(
    HandlePrefix(
      HandlePrefix(NewTrie, "http", PatternHTTP \cup PatternHTTP2),
      "socks5", PatternSOCKS5),
    "target", {B_TARGET})

Terminal(t, node) == node \in DOMAIN t.tag

HasNode(t, node) == node \in t.nodes

(***************************************************************************)
(* Visitor configuration: Transport.UseEncryption, Transport.UseCompression *)
(* and Users (username -> password, both byte strings).                    *)
(***************************************************************************)
\* "u" and "p"
UserU == <<117>>
PassP == <<112>>
\* "x", a name that is no key of Users, and "q", a password of nobody
UserX == <<120>>
PassQ == <<113>>

NoUsers == << >>

OneUser == [n \in {UserU} |-> PassP]

\* sv.cfg.ServerName and sv.cfg.SecretKey, the key as its characters
ServerNames == {"stcp-a", "stcp-b"}
SecretKeys == {<<"k">>, <<"k", "1">>, << >>}

Configs ==
  [UseEncryption : BOOLEAN, UseCompression : BOOLEAN, Users : {NoUsers, OneUser},
   ServerName : {"stcp-a"}, SecretKey : {<<"k">>}]

\* the configurations that differ in what DialContext signs
SignConfigs ==
  [UseEncryption : BOOLEAN, UseCompression : {FALSE}, Users : {NoUsers},
   ServerName : ServerNames, SecretKey : SecretKeys]

\* readings of time.Now().Unix()
Timestamps == {0, 9, 10, 1700000000}

\* Go map index: sv.cfg.Users[username] yields the zero value "" for a
\* username that is no key of the map
UsersIndex(users, username) ==
  IF username \in DOMAIN users THEN users[username] ELSE << >>

(***************************************************************************)
(* Client inputs.  bytes is everything the client writes before it closes  *)
(* its sending side; http is what net/http parses out of an HTTP request   *)
(* head (method, URL host, Proxy-Authorization), NoReq for the others.     *)
(***************************************************************************)
NoReq == [method |-> "", host |-> "", auth |-> [kind |-> "none", u |-> << >>, p |-> << >>]]

\* payload bytes the client sends after its header: "y", "z", ...
Payloads == {[i \in 1..n |-> 120 + i] : n \in 0..MaxPayload}

\* "a:1"
AddrA1 == <<97, 58, 49>>

CRLFCRLF == <<13, 10, 13, 10>>

\* user/password pairs a client may present
Pairs ==
  {[u |-> UserU, p |-> PassP], [u |-> UserU, p |-> PassQ], [u |-> UserU, p |-> << >>],
   [u |-> UserX, p |-> PassP], [u |-> UserX, p |-> << >>]}

\* 'TARGET <addr>;' followed by payload, and malformed variants
TargetHeads ==
  {B_TARGET \o AddrA1 \o <<SEMI>>,     \* TARGET a:1;
   B_TARGET \o <<SEMI>>,               \* TARGET ;   (empty address)
   B_TARGET \o <<97, SEMI>>,           \* TARGET a;  (no port)
   B_TARGET \o SP \o AddrA1 \o <<SEMI>>, \* TARGET  a:1; (extra whitespace)
   B_TARGET \o AddrA1}                 \* TARGET a:1 (no terminator)

\* what follows the head: payload, possibly with a further ';' in it
TargetPayloads == Payloads \cup {<<121, SEMI>>}

TargetInputs ==
  {[bytes |-> h \o pl, http |-> NoReq] : h \in TargetHeads, pl \in TargetPayloads}

\* RFC 1929 sub-negotiation: VER=1 ULEN UNAME PLEN PASSWD
S5AuthBytes(pair) == <<1, Len(pair.u)>> \o pair.u \o <<Len(pair.p)>> \o pair.p

\* SOCKS5 request: VER=5 CMD RSV ATYP=3 LEN 'a' PORT=80
S5Request(cmd) == <<5, cmd, 0, 3, 1, 97, 0, 80>>

S5Greetings == {<<5, 1, 0>>, <<5, 1, 2>>, <<5, 2, 0, 2>>, <<5, 2, 2, 0>>, <<5, 1, 1>>}

\* commands: CONNECT, UDP ASSOCIATE, and 9 which is no SOCKS5 command
S5Commands == {1, 3, 9}

Socks5Inputs ==
  {[bytes |-> g \o a \o S5Request(c) \o pl, http |-> NoReq] :
     g \in S5Greetings,
     a \in {<< >>} \cup {S5AuthBytes(pr) : pr \in Pairs} \cup {<<2, 1, 117, 1, 112>>},
     c \in S5Commands,
     pl \in {<< >>, <<121>>}}
  \cup {[bytes |-> <<5, 1>>, http |-> NoReq], [bytes |-> <<5, 2, 0>>, http |-> NoReq]}

\* SOCKS4 CONNECT 127.0.0.1:80 with USERID, NUL-terminated
Socks4Inputs ==
  {[bytes |-> <<4, cd, 0, 80, 127, 0, 0, 1>> \o uid \o <<0>> \o pl, http |-> NoReq] :
     cd \in {1}, uid \in {<< >>, UserU, UserX}, pl \in {<< >>, <<121>>}}

HttpAuths ==
  {[kind |-> "none", u |-> << >>, p |-> << >>],
   [kind |-> "malformed", u |-> << >>, p |-> << >>]}
  \cup {[kind |-> "basic", u |-> pr.u, p |-> pr.p] : pr \in Pairs}

HttpInputs ==
  {[bytes |-> B_CONNECT \o SP \o CRLFCRLF \o pl,
    http |-> [method |-> "CONNECT", host |-> "h", auth |-> a]] :
     a \in HttpAuths, pl \in {<< >>, <<121>>, <<121, 122>>}}
  \cup
  {[bytes |-> B_GET \o SP \o CRLFCRLF,
    http |-> [method |-> "GET", host |-> h, auth |-> a]] :
     a \in HttpAuths, h \in {"", "h"}}

\* first bytes that match no registered prefix, or end before one is complete
MissInputs ==
  {[bytes |-> b, http |-> NoReq] :
     b \in {<< >>, <<83, 83, 72, 45>>, <<5, 0>>, <<5, 4, 0>>, <<4, 3>>, <<22, 3, 1>>,
            <<71, 69, 88>>, <<84, 65, 82, 71>>, <<84, 82, 65, 80, 32>>,
            <<80, 82, 73, 32, 42, 88>>, <<5>>}}

\* UDP endpoints in the SOCKS5 address encoding ATYP=1 IPv4 PORT: the client's
\* UDP socket 10.0.0.1:1024 and two origins, 8.8.8.8:53 and 9.9.9.9:53
CAddr == <<1, 10, 0, 0, 1, 4, 0>>
T1 == <<1, 8, 8, 8, 8, 0, 53>>
T2 == <<1, 9, 9, 9, 9, 0, 53>>

\* SOCKS5 UDP request header RSV(2) FRAG(1) ATYP DST.ADDR DST.PORT
UdpHeader(frag, dst) == <<0, 0, frag>> \o dst

\* 'var buf [maxUdpPacket]byte': the length of the packet buffer of the relay
\* loop, which is the most that udpConn.ReadFrom(buf[:]) returns; scaled down
\* to one byte more than the longest datagram with a SOCKS UDP header below
maxUdpPacket == 12

\* datagrams that may arrive at the UDP listener: from the client, whole,
\* fragment, for another destination, too short, of an unknown address type;
\* and from each origin, and from the first origin one that fills the buffer
Datagrams ==
  {[from |-> CAddr, data |-> d] :
     d \in {UdpHeader(0, T1) \o <<200>>, UdpHeader(1, T1) \o <<200>>,
            UdpHeader(0, T2) \o <<200>>, <<0, 0>>, <<0, 0, 0, 9>>}}
  \cup {[from |-> T1, data |-> <<201>>], [from |-> T2, data |-> <<201>>],
        [from |-> T1, data |-> [k \in 1..maxUdpPacket |-> 201]]}

\* sessions that ask for a BIND
BindInputs ==
  {[bytes |-> g \o a \o S5Request(2) \o pl, http |-> NoReq] :
     g \in S5Greetings,
     a \in {<< >>} \cup {S5AuthBytes(pr) : pr \in Pairs},
     pl \in {<< >>, <<121>>}}

\* sessions that ask for a UDP association
AssocInputs ==
  {[bytes |-> g \o a \o S5Request(3) \o pl, http |-> NoReq] :
     g \in S5Greetings,
     a \in {<< >>} \cup {S5AuthBytes(pr) : pr \in Pairs},
     pl \in {<< >>, <<121>>}}

Inputs == TargetInputs \cup Socks5Inputs \cup Socks4Inputs \cup HttpInputs \cup MissInputs

(***************************************************************************)
(* State of one session.                                                   *)
(***************************************************************************)
VARIABLES
  build,       \* which copy of the visitor source runs: "later" or "earlier"
  cfg,         \* the visitor configuration
  input,       \* what the client sends
  pc,          \* position of the session in handleConn and its callees
  sockPos,     \* number of bytes pulled from the client socket so far
  matchBuf,    \* consumed_bytes of MatchWithReader
  unread,      \* buffer of the replayed connection (UnreadConn), << >> once dropped
  served,      \* every byte the replayed connection's Read has returned, in order
  rd,          \* bytes read by the running protocol parser for its current phase
  proxyType,   \* the tag the muxer returned
  handlerCalls,\* protocol handlers invoked by handleConn, in order
  toClient,    \* writes made on the client stream, in order
  userCloses,  \* number of Close calls on the client stream
  req,         \* the request parsed by the protocol handler
  dial,        \* the running / last DialContext call
  ctl,         \* the control stream obtained from ConnectServer
  remote,      \* the stream DialContext returned (readWriteCloserConn)
  pool,        \* pooled compression state: acquisitions and releases
  join,        \* the joiner: bytes copied each way
  hijack,      \* outcome of Hijack in proxyConnect: "none", "ok" or "failed"
  udp,         \* the UDP listener and relay state of a SOCKS5 UDP ASSOCIATE
  env,         \* what time.Now().Unix() returns, and whether sv.ctx is cancelled
  proc,        \* the visitor process: Run, its listeners, accept loops, sessions
  conf,        \* a configuration document and what LoadConfigure made of it
  bind         \* the listener of a SOCKS5 BIND and the connection it accepted

vars ==
  <<build, cfg, input, pc, sockPos, matchBuf, unread, served, rd, proxyType, handlerCalls,
    toClient, userCloses, req, dial, ctl, remote, pool, join, hijack, udp, bind, env, proc,
    conf>>

NoDial == [calls |-> 0, target |-> << >>, st |-> "none", conn |-> FALSE, err |-> ""]

NoCtl ==
  [st |-> "none", closes |-> 0, deadline |-> FALSE, armed |-> 0, out |-> << >>, resp |-> "unread",
   opened |-> 0, port |-> 0]

NoRemote == [made |-> FALSE, layers |-> << >>, recycleFn |-> FALSE, closes |-> 0]

NoPool == [acquired |-> 0, recycled |-> 0]

NoJoin ==
  [started |-> FALSE, up |-> << >>, upSrc |-> << >>, down |-> << >>, originPos |-> 0,
   upDone |-> FALSE, downDone |-> FALSE, closed |-> FALSE, broken |-> {}, breaks |-> 0,
   upRead |-> << >>, downRead |-> << >>,
   bytesPool |-> FALSE, gets |-> << >>, held |-> {}, puts |-> << >>]

\* Close calls made on the streams of one join from outside the joiner
MaxBreaks == 2

\* no UDP listener: its state, Close calls, the control-channel watcher, the
\* source and target addresses, the datagrams received and those sent
NoUdp ==
  [st |-> "none", closes |-> 0, watcher |-> "none", source |-> << >>, target |-> << >>,
   targetBy |-> 0, recvd |-> << >>, toTarget |-> << >>, toSource |-> << >>]

\* datagrams one association receives
MaxDatagrams == 2

\* no BIND listener and no accepted connection; accepts counts the
\* connections Accept returned, the closes count the Close calls
NoBind ==
  [listener |-> "none", listenerCloses |-> 0, accepts |-> 0, conn |-> "none", connCloses |-> 0]

NoRequest == [cmd |-> 0, addr |-> << >>, user |-> << >>, pass |-> << >>, method |-> 0]

\* the clock and the context of the visitor: not cancelled
EnvAt(clock) == [clock |-> clock, cancelled |-> FALSE, silent |-> FALSE]

\* the visitor before Run: no external listener, the in-process listener
\* made by the constructor, no accept loop, no session
NoProc ==
  [run |-> "none", BindPort |-> 0, l |-> "none", internalLn |-> "open",
   worker |-> "none", internalConnWorker |-> "none", sessions |-> << >>, alive |-> TRUE,
   dials |-> << >>, streams |-> << >>, trie |-> NewTrie, puts |-> {}]

\* no configuration document
NoConf ==
  [st |-> "none", strict |-> FALSE, doc |-> [format |-> "", entries |-> << >>],
   result |-> [err |-> FALSE, key |-> "", fields |-> {}]]

InitSession(b, ins, cfgs, clocks, procs, confs) ==
  /\ build = b
  /\ cfg \in cfgs
  /\ input \in ins
  /\ env \in {EnvAt(c) : c \in clocks}
  /\ proc \in procs
  /\ conf \in confs

\* a session that has just been accepted
SessionIdle ==
  /\ pc = "mux"
  /\ sockPos = 0
  /\ matchBuf = << >>
  /\ unread = << >>
  /\ served = << >>
  /\ rd = << >>
  /\ proxyType = ""
  /\ handlerCalls = << >>
  /\ toClient = << >>
  /\ userCloses = 0
  /\ req = NoRequest
  /\ dial = NoDial
  /\ ctl = NoCtl
  /\ remote = NoRemote
  /\ pool = NoPool
  /\ join = NoJoin
  /\ hijack = "none"
  /\ udp = NoUdp
  /\ bind = NoBind

\* one session of a running visitor, at a fixed time
InitWith(b, ins) ==
  /\ InitSession(b, ins, Configs, {10}, {NoProc}, {NoConf})
  /\ SessionIdle

Init == InitWith("later", Inputs)

\* the earlier copy of the visitor, on the inputs of its TARGET path
InitEarlier == InitWith("earlier", TargetInputs \cup MissInputs)

(***************************************************************************)
(* Prefix match over a reader, one iteration of the loop: pull one byte,   *)
(* descend; stop on a read error, on an absent child, on a terminal node.  *)
(* eof: the reader has no byte to give; b: the byte it gives otherwise.    *)
(***************************************************************************)
\* a match loop that does not record the byte on which it misses
MatchIterForgetsMiss(t, buf, eof, b) ==
  IF eof THEN [st |-> "err", tag |-> "", buf |-> buf]
  ELSE LET nb == Append(buf, b)
       IN IF ~HasNode(t, nb) THEN [st |-> "miss", tag |-> "", buf |-> buf]
          ELSE IF Terminal(t, nb) THEN [st |-> "hit", tag |-> t.tag[nb], buf |-> nb]
          ELSE [st |-> "more", tag |-> "", buf |-> nb]

MatchIter(t, buf, eof, b) ==
  IF eof THEN [st |-> "err", tag |-> "", buf |-> buf]
  ELSE LET nb == Append(buf, b)
       IN IF ~HasNode(t, nb) THEN [st |-> "miss", tag |-> "", buf |-> nb]
          ELSE IF Terminal(t, nb) THEN [st |-> "hit", tag |-> t.tag[nb], buf |-> nb]
          ELSE [st |-> "more", tag |-> "", buf |-> nb]

\* UnreadConn(conn, buf): the replayed connection serves buf before the socket
UnreadConn(buf) == buf

\* a muxer that hands on the bare connection, without the consumed bytes
muxerNoReplay(m) ==
  IF m.st /= "hit"
  THEN [proxyType |-> "", conn |-> << >>, err |-> TRUE]
  ELSE [proxyType |-> m.tag, conn |-> << >>, err |-> FALSE]

\* the muxer closure: m is what MatchWithReader returned
muxer(m) ==
  IF m.st /= "hit"
  THEN [proxyType |-> "", conn |-> << >>, err |-> TRUE]
  ELSE [proxyType |-> m.tag, conn |-> UnreadConn(m.buf), err |-> FALSE]

\* a handleConn that lacks the deferred Close
DeferUserCloseMissing(n) == n

\* handleConn's deferred userConn.Close(): n Close calls so far
DeferUserClose(n) == n + 1

\* One iteration of MatchWithReader inside muxer; when the match ends, muxer
\* returns and handleConn either returns (error) or goes on to dispatch.
MatchStep ==
  /\ pc = "mux"
  /\ LET eof == sockPos = Len(input.bytes)
         b == IF eof THEN 0 ELSE input.bytes[sockPos + 1]
         m == MatchIter(IF build = "earlier" THEN handlerTrieEarlier ELSE handlerTrie,
                        matchBuf, eof, b)
         r == muxer(m)
     IN /\ matchBuf' = m.buf
        /\ sockPos' = IF eof THEN sockPos ELSE sockPos + 1
        /\ IF m.st = "more"
           THEN UNCHANGED <<pc, proxyType, unread, userCloses>>
           ELSE IF r.err
           THEN /\ pc' = "done"
                /\ userCloses' = DeferUserClose(userCloses)
                /\ UNCHANGED <<proxyType, unread>>
           ELSE /\ pc' = "dispatch"
                /\ proxyType' = r.proxyType
                /\ unread' = r.conn
                /\ UNCHANGED userCloses
  /\ UNCHANGED <<build, bind, proc, conf, env, hijack, udp, cfg, input, served, rd, handlerCalls, toClient, req, dial, ctl,
                 remote, pool, join>>

(***************************************************************************)
(* Read(dst) on the replayed connection with len(dst) = n: the results it  *)
(* may give.  The buffer is served first; once it is empty the read goes   *)
(* to the socket, which delivers at least one byte and at most n.          *)
(***************************************************************************)
Min(a, b) == IF a < b THEN a ELSE b

ConnReads(n) ==
  IF unread /= << >>
  THEN LET k == Min(n, Len(unread))
       IN {[data |-> SubSeq(unread, 1, k),
            unread |-> SubSeq(unread, k + 1, Len(unread)),
            sockPos |-> sockPos]}
  ELSE {[data |-> SubSeq(input.bytes, sockPos + 1, sockPos + k),
         unread |-> << >>,
         sockPos |-> sockPos + k] :
          k \in 1..Min(Min(n, MaxRead), Len(input.bytes) - sockPos)}

\* the client has closed its sending side and every byte has been read
ConnEOF == unread = << >> /\ sockPos = Len(input.bytes)

(***************************************************************************)
(* Returning from handleConn: the deferred userConn.Close() runs.          *)
(***************************************************************************)
HandleConnReturn ==
  /\ pc' = "done"
  /\ userCloses' = DeferUserClose(userCloses)

(***************************************************************************)
(* Target-line parser.                                                     *)
(***************************************************************************)
\* bytes.HasSuffix(targetBuf, ";")
EndsWithSemi(buf) == Len(buf) > 0 /\ buf[Len(buf)] = SEMI

\* a ParseTargetHead that leaves the terminator in the address
ParseTargetHeadKeepsSemi(targetBuf) ==
  IF ~IsPrefix(B_TARGET, targetBuf)
  THEN [err |-> TRUE, addr |-> << >>]
  ELSE [err |-> FALSE,
        addr |-> SubSeq(targetBuf, Len(B_TARGET) + 1, Len(targetBuf))]

\* what ParseTargetHead returns once targetBuf ends with ';'
ParseTargetHeadResult(targetBuf) ==
  IF ~IsPrefix(B_TARGET, targetBuf)
  THEN [err |-> TRUE, addr |-> << >>]
  ELSE [err |-> FALSE,
        addr |-> SubSeq(targetBuf, Len(B_TARGET) + 1, Len(targetBuf) - 1)]

\* DialContext is entered with the given target
DialCall(target) == [NoDial EXCEPT !.calls = dial.calls + 1, !.target = target, !.st = "running"]

\* handleConn, case "target": ParseTargetHead starts reading
DispatchTarget ==
  /\ pc = "dispatch"
  /\ proxyType = "target"
  /\ pc' = "tg_parse"
  /\ rd' = << >>
  /\ handlerCalls' = Append(handlerCalls, "target")
  /\ UNCHANGED <<build, bind, proc, conf, env, hijack, udp, cfg, input, sockPos, matchBuf, unread, served, proxyType,
                 toClient, userCloses, req, dial, ctl, remote, pool, join>>

\* One iteration of ParseTargetHead's loop: a Read of one byte.  On a read
\* error, or a head that does not start with 'TARGET ', handleConn returns;
\* on a parsed head it calls DialContext with the address.
TargetRead ==
  /\ pc = "tg_parse"
  /\ IF ConnEOF
     THEN /\ HandleConnReturn
          /\ UNCHANGED <<sockPos, unread, served, rd, req, dial>>
     ELSE \E r \in ConnReads(1) :
            LET buf == rd \o r.data
                res == ParseTargetHeadResult(buf)
            IN /\ sockPos' = r.sockPos
               /\ unread' = r.unread
               /\ served' = served \o r.data
               /\ rd' = buf
               /\ IF ~EndsWithSemi(buf)
                  THEN UNCHANGED <<pc, userCloses, req, dial>>
                  ELSE IF res.err
                  THEN /\ HandleConnReturn
                       /\ UNCHANGED <<req, dial>>
                  ELSE /\ pc' = "dial_connect"
                       /\ req' = [req EXCEPT !.addr = res.addr]
                       /\ dial' = DialCall(res.addr)
                       /\ UNCHANGED userCloses
  /\ UNCHANGED <<build, bind, proc, conf, env, hijack, udp, cfg, input, matchBuf, proxyType, handlerCalls, toClient, ctl, remote,
                 pool, join>>

(***************************************************************************)
(* Tunnel dialer: DialContext, one action per call it makes on the         *)
(* control stream.                                                         *)
(***************************************************************************)
\* DialContext returns (nil, err)
DialFail(e) == [dial EXCEPT !.st = "returned", !.conn = FALSE, !.err = e]

\* strconv.FormatInt(n, 10) of a non-negative n, as its characters
RECURSIVE Decimal(_)
Decimal(n) ==
  LET digit == <<"0", "1", "2", "3", "4", "5", "6", "7", "8", "9">>[(n % 10) + 1]
  IN IF n < 10 THEN <<digit>> ELSE Append(Decimal(n \div 10), digit)

\* the hex form of the MD5 digest of a byte string; the digest is left
\* uninterpreted: equal inputs give equal digests, different inputs
\* different ones
Md5Hex(bytes) == <<"md5", bytes>>

\* util.GetAuthKey(token, timestamp)
GetAuthKey(token, timestamp) == Md5Hex(token \o Decimal(timestamp))

\* a message signed with a second reading of the clock, one second later
NewVisitorConnSignsLater(target) ==
  LET now == env.clock
  IN [type |-> "NewVisitorConn",
      RunID |-> "run",
      ProxyName |-> cfg.ServerName,
      SignKey |-> GetAuthKey(cfg.SecretKey, now + 1),
      Timestamp |-> now,
      UseEncryption |-> cfg.UseEncryption,
      UseCompression |-> cfg.UseCompression,
      TargetAddr |-> target]

\* the NewVisitorConn message DialContext builds; now is its one reading of
\* time.Now().Unix()
NewVisitorConn(target) ==
  LET now == env.clock
  IN [type |-> "NewVisitorConn",
      RunID |-> "run",
      ProxyName |-> cfg.ServerName,
      SignKey |-> GetAuthKey(cfg.SecretKey, now),
      Timestamp |-> now,
      UseEncryption |-> cfg.UseEncryption,
      UseCompression |-> cfg.UseCompression,
      TargetAddr |-> target]

\* local ports the stream of ConnectServer may be bound to
LocalPorts == {40001, 40002}

\* visitorConn, err := sv.helper.ConnectServer()
DialConnectServer ==
  /\ pc = "dial_connect"
  /\ \E ok \in BOOLEAN, port \in LocalPorts :
       IF ok
       THEN /\ ctl' = [NoCtl EXCEPT !.st = "open", !.opened = ctl.opened + 1,
                                   !.port = port]
            /\ pc' = "dial_write"
            /\ UNCHANGED dial
       ELSE /\ port = 40001
            /\ dial' = DialFail("connect")
            /\ pc' = "dial_ret"
            /\ UNCHANGED ctl
  /\ UNCHANGED <<build, bind, proc, conf, env, hijack, udp, cfg, input, sockPos, matchBuf, unread, served, rd, proxyType,
                 handlerCalls, toClient, userCloses, req, remote, pool, join>>

\* msg.WriteMsg(visitorConn, newVisitorConnMsg)
DialWriteMsg ==
  /\ pc = "dial_write"
  /\ \E ok \in BOOLEAN :
       IF ok
       THEN /\ ctl' = [ctl EXCEPT !.out = Append(@, NewVisitorConn(dial.target))]
            /\ pc' = "dial_read"
            /\ UNCHANGED dial
       ELSE /\ dial' = DialFail("write")
            /\ pc' = "dial_ret"
            /\ UNCHANGED ctl
  /\ UNCHANGED <<build, bind, proc, conf, env, hijack, udp, cfg, input, sockPos, matchBuf, unread, served, rd, proxyType,
                 handlerCalls, toClient, userCloses, req, remote, pool, join>>

\* a ReadMsgIntoTimeout that returns after the read without touching the
\* deadline again
ReadMsgIntoTimeoutLeavesDeadline(c, ok, e) ==
  IF ok THEN [c EXCEPT !.armed = @ + 1, !.deadline = TRUE, !.resp = e]
  ELSE [c EXCEPT !.armed = @ + 1, !.deadline = TRUE]

\* a read that is started with no deadline on the stream
SetReadDeadlineSkipped(c) == c

\* conn.SetReadDeadline(time.Now().Add(timeout)); armed counts these calls
SetReadDeadline(c) == [c EXCEPT !.armed = @ + 1, !.deadline = TRUE]

\* msg.ReadMsgIntoTimeout: the read deadline is set, and cleared by
\* SetReadDeadline of the zero time only when the read succeeded.  c is the
\* control stream, ok the outcome of the read.
ReadMsgIntoTimeout(c, ok, e) ==
  IF ok THEN [SetReadDeadline(c) EXCEPT !.deadline = FALSE, !.resp = e]
  ELSE SetReadDeadline(c)

\* the read of ReadMsgIntoTimeout returns with an error: the stream fails
\* under a peer that is there, or the deadline fires; with a peer that
\* stays silent and no deadline the read blocks
ReadFails(c, silent) == ~silent \/ SetReadDeadline(c).deadline

\* what DialContext returns for a response with a non-empty Error field
RespErrorReturn(d) == [d EXCEPT !.st = "returned", !.conn = FALSE, !.err = "remote"]

\* the same in the earlier copy: 'return nil, err' with the err of
\* ConnectServer, which is nil at this point
RespErrorReturnEarlier(d) == [d EXCEPT !.st = "returned", !.conn = FALSE, !.err = ""]

\* the Error fields a rendezvous may answer with: none, or some text
RespErrors == {"", "e"}

\* ReadMsgIntoTimeout(visitorConn, &resp, 10s) and the check of resp.Error
DialReadResp ==
  /\ pc = "dial_read"
  /\ \/ \* the read fails or times out
        /\ ReadFails(ctl, env.silent)
        /\ ctl' = ReadMsgIntoTimeout(ctl, FALSE, "")
        /\ dial' = DialFail(IF env.silent THEN "timeout" ELSE "read")
        /\ pc' = "dial_ret"
     \/ \E e \in RespErrors :
          /\ ~env.silent
          /\ ctl' = ReadMsgIntoTimeout(ctl, TRUE, e)
          /\ IF e /= ""
             THEN /\ dial' = IF build = "earlier"
                             THEN RespErrorReturnEarlier(dial)
                             ELSE RespErrorReturn(dial)
                  /\ pc' = "dial_ret"
             ELSE /\ pc' = "dial_wrap"
                  /\ UNCHANGED dial
  /\ UNCHANGED <<build, bind, proc, conf, env, hijack, udp, cfg, input, sockPos, matchBuf, unread, served, rd, proxyType,
                 handlerCalls, toClient, userCloses, req, remote, pool, join>>

\* libio.WithCompressionFromPool: a pooled compression state is taken and
\* the hook that gives it back is returned
WithCompressionFromPool(pl) == [pl EXCEPT !.acquired = @ + 1]

\* layers with the cipher put over the compressor
LayersCipherOutermost(c) ==
  (IF c.UseCompression THEN <<"compression">> ELSE << >>)
  \o (IF c.UseEncryption THEN <<"encryption">> ELSE << >>)

\* the layers DialContext puts over the control stream, innermost first
Layers(c) ==
  (IF c.UseEncryption THEN <<"encryption">> ELSE << >>)
  \o (IF c.UseCompression THEN <<"compression">> ELSE << >>)

\* WithEncryption, WithCompressionFromPool and the returned readWriteCloserConn
DialWrap ==
  /\ pc = "dial_wrap"
  /\ \/ \* libio.WithEncryption fails
        /\ cfg.UseEncryption
        /\ dial' = DialFail("encryption")
        /\ pc' = "dial_ret"
        /\ UNCHANGED <<remote, pool>>
     \/ /\ remote' = [made |-> TRUE, layers |-> Layers(cfg),
                      recycleFn |-> cfg.UseCompression, closes |-> 0]
        /\ pool' = IF cfg.UseCompression THEN WithCompressionFromPool(pool) ELSE pool
        /\ dial' = [dial EXCEPT !.st = "returned", !.conn = TRUE, !.err = ""]
        /\ pc' = "dial_ret"
  /\ UNCHANGED <<build, bind, proc, conf, env, hijack, udp, cfg, input, sockPos, matchBuf, unread, served, rd, proxyType,
                 handlerCalls, toClient, userCloses, req, ctl, join>>

\* a Write on the returned stream: each wrapper transforms the bytes and
\* writes the result to the stream it wraps, the outermost wrapper first; the
\* transforms are left uninterpreted
RECURSIVE WriteThrough(_, _)
WriteThrough(layers, bytes) ==
  IF layers = << >> THEN bytes
  ELSE WriteThrough(SubSeq(layers, 1, Len(layers) - 1), <<layers[Len(layers)], bytes>>)

\* a Read on the returned stream: each wrapper reads from the stream it wraps
\* and undoes its transform, so the innermost transform is undone first
RECURSIVE ReadThrough(_, _)
ReadThrough(layers, wire) ==
  IF layers = << >> THEN wire
  ELSE ReadThrough(Tail(layers), wire[2])

(***************************************************************************)
(* readWriteCloserConn.Close: recycleFn, if set, then Original.Close().    *)
(***************************************************************************)
\* the pool after one Close of the stream rm
CloseRecycle(rm, pl) == IF rm.recycleFn THEN [pl EXCEPT !.recycled = @ + 1] ELSE pl

\* the control stream after Original.Close()
CloseOriginal(c) == [c EXCEPT !.st = "closed", !.closes = @ + 1]

(***************************************************************************)
(* Writes on the client stream.  A write may fail (ok = FALSE); the bytes  *)
(* of a failed write are recorded with ok = FALSE.                         *)
(***************************************************************************)
ClientWrite(kind, data, ok) == Append(toClient, [kind |-> kind, data |-> data, ok |-> ok])

\* Server.ServeConn: defer conn.Close(), then handleConn's own deferred
\* userConn.Close(): the handler returned (with or without error)
ServeConnReturn ==
  /\ pc' = "done"
  /\ userCloses' = DeferUserClose(userCloses + 1)

(***************************************************************************)
(* SOCKS5 server: ParseRequest.                                            *)
(***************************************************************************)
socks5Version == 5
userAuthVersion == 1
noAuth == 0
userAuth == 2
noAcceptable == 255
authSuccess == 0
authFailure == 1
ConnectCommand == 1
BindCommand == 2
AssociateCommand == 3
commandNotSupported == 7
addrTypeNotSupported == 8
successReply == 0

\* bytes.IndexByte(methods, m) != -1
Offers(methods, m) == \E i \in 1..Len(methods) : methods[i] = m

\* the authenticator newSocks5ServeConn installs: nil unless Users is non-empty
S5Authentication(c) == DOMAIN c.Users /= {}

\* the AuthenticationFunc of newSocks5ServeConn
S5Auth(c, username, password) == UsersIndex(c.Users, username) = password

\* a selection that takes no-auth whenever the client offers it
SelectMethodNoAuthFirst(auth, methods) ==
  IF Offers(methods, noAuth) THEN noAuth
  ELSE IF auth /\ Offers(methods, userAuth) THEN userAuth
  ELSE noAcceptable

\* the method ParseRequest selects for a greeting: user/password, no-auth
\* or no-acceptable
SelectMethod(auth, methods) ==
  IF auth /\ Offers(methods, userAuth) THEN userAuth
  ELSE IF ~auth /\ Offers(methods, noAuth) THEN noAuth
  ELSE noAcceptable

\* handleConn, case "socks5": newSocks5ServeConn, ServeConn, ParseRequest
DispatchSocks5 ==
  /\ pc = "dispatch"
  /\ proxyType = "socks5"
  /\ pc' = "s5_greet"
  /\ rd' = << >>
  /\ handlerCalls' = Append(handlerCalls, "socks5")
  /\ UNCHANGED <<build, bind, proc, conf, env, hijack, udp, cfg, input, sockPos, matchBuf, unread, served, proxyType,
                 toClient, userCloses, req, dial, ctl, remote, pool, join>>

\* greeting VER NMETHODS METHODS: the size of the next read, 0 when complete
S5GreetNeed(buf) ==
  IF Len(buf) < 2 THEN 1 ELSE 2 + buf[2] - Len(buf)

\* One read of the greeting; on the last one the method is selected and
\* announced to the client.
S5Greet ==
  /\ pc = "s5_greet"
  /\ IF ConnEOF
     THEN /\ ServeConnReturn
          /\ UNCHANGED <<sockPos, unread, served, rd, toClient, req>>
     ELSE \E r \in ConnReads(S5GreetNeed(rd)), ok \in BOOLEAN :
            LET buf == rd \o r.data
                methods == SubSeq(buf, 3, Len(buf))
                m == SelectMethod(S5Authentication(cfg), methods)
            IN /\ sockPos' = r.sockPos
               /\ unread' = r.unread
               /\ served' = served \o r.data
               /\ IF buf[1] /= socks5Version
                  THEN /\ ok
                       /\ ServeConnReturn
                       /\ UNCHANGED <<rd, toClient, req>>
                  ELSE IF S5GreetNeed(buf) > 0
                  THEN /\ ok
                       /\ rd' = buf
                       /\ UNCHANGED <<pc, userCloses, toClient, req>>
                  ELSE /\ toClient' = ClientWrite("s5method", <<socks5Version, m>>, ok)
                       /\ req' = [req EXCEPT !.method = m]
                       /\ rd' = << >>
                       /\ IF ~ok \/ m = noAcceptable
                          THEN ServeConnReturn
                          ELSE /\ pc' = IF m = userAuth THEN "s5_auth" ELSE "s5_req"
                               /\ UNCHANGED userCloses
  /\ UNCHANGED <<build, bind, proc, conf, env, hijack, udp, cfg, input, matchBuf, proxyType, handlerCalls, dial, ctl, remote,
                 pool, join>>

\* sub-negotiation VER ULEN UNAME PLEN PASSWD: size of the next read
S5AuthNeed(buf) ==
  IF Len(buf) < 2 THEN 1
  ELSE LET ulen == buf[2]
       IN IF Len(buf) < 2 + ulen THEN 2 + ulen - Len(buf)
          ELSE IF Len(buf) = 2 + ulen THEN 1
          ELSE 3 + ulen + buf[3 + ulen] - Len(buf)

\* One read of the user/password sub-negotiation; on the last one the
\* authenticator decides and the status is written.
S5AuthRead ==
  /\ pc = "s5_auth"
  /\ IF ConnEOF
     THEN /\ ServeConnReturn
          /\ UNCHANGED <<sockPos, unread, served, rd, toClient, req>>
     ELSE \E r \in ConnReads(S5AuthNeed(rd)), ok \in BOOLEAN :
            LET buf == rd \o r.data
                ulen == buf[2]
                username == SubSeq(buf, 3, 2 + ulen)
                password == SubSeq(buf, 4 + ulen, Len(buf))
                pass == S5Auth(cfg, username, password)
            IN /\ sockPos' = r.sockPos
               /\ unread' = r.unread
               /\ served' = served \o r.data
               /\ IF buf[1] /= userAuthVersion
                  THEN /\ ok
                       /\ ServeConnReturn
                       /\ UNCHANGED <<rd, toClient, req>>
                  ELSE IF S5AuthNeed(buf) > 0
                  THEN /\ ok
                       /\ rd' = buf
                       /\ UNCHANGED <<pc, userCloses, toClient, req>>
                  ELSE /\ req' = [req EXCEPT !.user = username, !.pass = password]
                       /\ rd' = << >>
                       /\ toClient' =
                            ClientWrite("s5auth",
                                        <<userAuthVersion,
                                          IF pass THEN authSuccess ELSE authFailure>>, ok)
                       /\ IF ~ok \/ ~pass
                          THEN ServeConnReturn
                          ELSE /\ pc' = "s5_req"
                               /\ UNCHANGED userCloses
  /\ UNCHANGED <<build, bind, proc, conf, env, hijack, udp, cfg, input, matchBuf, proxyType, handlerCalls, dial, ctl, remote,
                 pool, join>>

\* length of the address that follows ATYP (length byte included), -1 for an
\* unknown ATYP; b is the byte after ATYP when there is one
AddrLen(atyp, b) ==
  IF atyp = 1 THEN 4 ELSE IF atyp = 4 THEN 16 ELSE IF atyp = 3 THEN 1 + b ELSE 0 - 1

\* request VER CMD RSV ATYP ADDR PORT: size of the next read
S5ReqNeed(buf) ==
  IF Len(buf) < 3 THEN 3 - Len(buf)
  ELSE IF Len(buf) = 3 THEN 1
  ELSE IF buf[4] = 3 /\ Len(buf) = 4 THEN 1
  ELSE 4 + AddrLen(buf[4], IF Len(buf) > 4 THEN buf[5] ELSE 0) + 2 - Len(buf)

\* One read of the request; on the last one handle dispatches on the command.
S5ReqRead ==
  /\ pc = "s5_req"
  /\ IF ConnEOF
     THEN /\ ServeConnReturn
          /\ UNCHANGED <<sockPos, unread, served, rd, toClient, req, dial>>
     ELSE \E r \in ConnReads(S5ReqNeed(rd)), ok \in BOOLEAN :
            LET buf == rd \o r.data
            IN /\ sockPos' = r.sockPos
               /\ unread' = r.unread
               /\ served' = served \o r.data
               /\ IF Len(buf) >= 3 /\ buf[1] /= socks5Version
                  THEN /\ ok
                       /\ ServeConnReturn
                       /\ UNCHANGED <<rd, toClient, req, dial>>
                  ELSE IF Len(buf) >= 4 /\ AddrLen(buf[4], 0) < 0
                  THEN /\ toClient' = ClientWrite("s5reply", <<addrTypeNotSupported>>, ok)
                       /\ ServeConnReturn
                       /\ UNCHANGED <<rd, req, dial>>
                  ELSE IF S5ReqNeed(buf) > 0
                  THEN /\ ok
                       /\ rd' = buf
                       /\ UNCHANGED <<pc, userCloses, toClient, req, dial>>
                  ELSE LET cmd == buf[2]
                           addr == SubSeq(buf, 4, Len(buf))
                       IN /\ req' = [req EXCEPT !.cmd = cmd, !.addr = addr]
                          /\ rd' = << >>
                          /\ IF cmd = ConnectCommand
                             THEN /\ ok
                                  /\ pc' = "dial_connect"
                                  /\ dial' = DialCall(addr)
                                  /\ UNCHANGED <<userCloses, toClient>>
                             ELSE IF cmd \in {BindCommand, AssociateCommand}
                             THEN /\ ok
                                  /\ pc' = IF cmd = AssociateCommand
                                           THEN "s5_assoc" ELSE "s5_bind"
                                  /\ UNCHANGED <<userCloses, toClient, dial>>
                             ELSE /\ toClient' =
                                       ClientWrite("s5reply", <<commandNotSupported>>, ok)
                                  /\ ServeConnReturn
                                  /\ UNCHANGED dial
  /\ UNCHANGED <<build, bind, proc, conf, env, hijack, udp, cfg, input, matchBuf, proxyType, handlerCalls, ctl, remote, pool, join>>

(***************************************************************************)
(* What the callers of DialContext do with what it returned.               *)
(***************************************************************************)
\* a caller that lacks the deferred Close of the stream
DeferRemoteCloseMissing == UNCHANGED <<remote, pool, ctl>>

\* a deferred Close of the stream DialContext returned runs
DeferRemoteClose ==
  /\ remote' = [remote EXCEPT !.closes = @ + 1]
  /\ pool' = CloseRecycle(remote, pool)
  /\ ctl' = CloseOriginal(ctl)

\* the joiner starts copying between the client stream and the tunnel stream
StartJoin ==
  /\ pc' = "join"
  /\ join' = [join EXCEPT !.started = TRUE]

\* the scratch buffers of a tunnel when s.BytesPool is set: buf1 and buf2
\* are the results of two calls of BytesPool.Get
GetBuffers(j, bytesPool) ==
  IF bytesPool
  THEN [j EXCEPT !.bytesPool = TRUE, !.gets = <<"buf1", "buf2">>, !.held = {"buf1", "buf2"}]
  ELSE j

\* a deferred function that puts buf1 back twice
PutBuffersFirstTwice(j) ==
  IF j.bytesPool
  THEN [j EXCEPT !.puts = @ \o <<"buf1", "buf1">>, !.held = @ \ {"buf1"}]
  ELSE j

\* the deferred function: BytesPool.Put(buf1), BytesPool.Put(buf2)
PutBuffers(j) ==
  IF j.bytesPool
  THEN [j EXCEPT !.puts = @ \o <<"buf1", "buf2">>, !.held = @ \ {"buf1", "buf2"}]
  ELSE j

\* handleConnect and proxyConnect: the buffers are taken, tunnel starts
StartTunnel(bytesPool) ==
  /\ pc' = "join"
  /\ join' = GetBuffers([join EXCEPT !.started = TRUE], bytesPool)

\* handleConn, case "target", after DialContext: return on error, else
\* defer remote.Close() and libio.Join(userConn, remote).  A nil stream with
\* a nil error makes the deferred remote.Close() dereference nil.
TargetDialed ==
  /\ pc = "dial_ret"
  /\ proxyType = "target"
  /\ IF dial.err /= ""
     THEN /\ HandleConnReturn
          /\ UNCHANGED join
     ELSE IF ~dial.conn
     THEN /\ pc' = "panic"
          /\ UNCHANGED <<userCloses, join>>
     ELSE /\ StartJoin
          /\ UNCHANGED userCloses
  /\ UNCHANGED <<build, bind, proc, conf, env, hijack, udp, cfg, input, sockPos, matchBuf, unread, served, rd, proxyType,
                 handlerCalls, toClient, req, dial, ctl, remote, pool>>

\* errToReply: the SOCKS5 reply code for a dial error; the errors of
\* DialContext are none of unreachable network, unreachable host, refused
ErrToReply(e) == 1


\* Server.handleConnect after proxyDial: a failure reply, or the success
\* reply with the local port of the dialed stream and then the tunnel.
S5Dialed ==
  /\ pc = "dial_ret"
  /\ proxyType = "socks5"
  /\ \E ok \in BOOLEAN, addrOk \in BOOLEAN, bytesPool \in BOOLEAN :
       /\ bytesPool => (dial.err = "" /\ dial.conn /\ addrOk /\ ok)
       /\ IF dial.err /= "" \/ ~dial.conn
          THEN /\ addrOk
               /\ toClient' = ClientWrite("s5reply", <<ErrToReply(dial.err)>>, ok)
               /\ ServeConnReturn
               /\ UNCHANGED <<join, remote, pool, ctl>>
          ELSE IF ~addrOk
          THEN \* the local address of the stream has no host:port form
               /\ ok
               /\ DeferRemoteClose
               /\ ServeConnReturn
               /\ UNCHANGED <<join, toClient>>
          ELSE /\ toClient' = ClientWrite("s5reply", <<successReply, ctl.port>>, ok)
               /\ IF ok
                  THEN /\ StartTunnel(bytesPool)
                       /\ UNCHANGED <<userCloses, remote, pool, ctl>>
                  ELSE /\ DeferRemoteClose
                       /\ ServeConnReturn
                       /\ UNCHANGED join
  /\ UNCHANGED <<build, bind, proc, conf, env, hijack, udp, cfg, input, sockPos, matchBuf, unread, served, rd, proxyType,
                 handlerCalls, req, dial>>

(***************************************************************************)
(* SOCKS5 BIND (handleBind).                                               *)
(***************************************************************************)
\* listener.Close()
ListenerClose(b) == [b EXCEPT !.listener = "closed", !.listenerCloses = @ + 1]

\* lc.Listen succeeded
Listening(b) == [b EXCEPT !.listener = "open"]

\* listener.Accept() returned a connection
Accepted(b) == [b EXCEPT !.accepts = @ + 1, !.conn = "open"]

\* tunnel closes the accepted connection when it ends
TunnelClosesConn(b) == [b EXCEPT !.conn = "closed", !.connCloses = @ + 1]

\* lc.Listen, the type of the listener's address, the first reply
BindListen ==
  /\ pc = "s5_bind"
  /\ \E out \in {"listenFailed", "addrFailed", "replied"}, ok \in BOOLEAN :
       IF out = "listenFailed"
       THEN /\ toClient' = ClientWrite("s5reply", <<ErrToReply("listen")>>, ok)
            /\ ServeConnReturn
            /\ UNCHANGED bind
       ELSE IF out = "addrFailed"
       THEN /\ ok
            /\ bind' = ListenerClose(Listening(bind))
            /\ ServeConnReturn
            /\ UNCHANGED toClient
       ELSE /\ toClient' = ClientWrite("s5reply", <<successReply>>, ok)
            /\ IF ok
               THEN /\ bind' = Listening(bind)
                    /\ pc' = "bind_accept"
                    /\ UNCHANGED userCloses
               ELSE /\ bind' = ListenerClose(Listening(bind))
                    /\ ServeConnReturn
  /\ UNCHANGED <<build, proc, conf, env, hijack, udp, cfg, input, sockPos, matchBuf, unread, served,
                 rd,
                 proxyType, handlerCalls, req, dial, ctl, remote, pool, join>>

\* listener.Accept, listener.Close, the type of the peer's address, the
\* second reply, the scratch buffers; then tunnel starts
BindAccept ==
  /\ pc = "bind_accept"
  /\ \E out \in {"acceptFailed", "addrFailed", "replied"}, ok \in BOOLEAN,
        bytesPool \in BOOLEAN :
       /\ bytesPool => (out = "replied" /\ ok)
       /\ IF out = "acceptFailed"
          THEN /\ bind' = ListenerClose(bind)
               /\ toClient' = ClientWrite("s5reply", <<ErrToReply("accept")>>, ok)
               /\ ServeConnReturn
               /\ UNCHANGED join
          ELSE IF out = "addrFailed"
          THEN /\ ok
               /\ bind' = ListenerClose(Accepted(bind))
               /\ ServeConnReturn
               /\ UNCHANGED <<toClient, join>>
          ELSE /\ bind' = ListenerClose(Accepted(bind))
               /\ toClient' = ClientWrite("s5reply", <<successReply>>, ok)
               /\ IF ok
                  THEN /\ pc' = "bind_tunnel"
                       /\ join' = GetBuffers(join, bytesPool)
                       /\ UNCHANGED userCloses
                  ELSE /\ ServeConnReturn
                       /\ UNCHANGED join
  /\ UNCHANGED <<build, proc, conf, env, hijack, udp, cfg, input, sockPos, matchBuf, unread, served,
                 rd,
                 proxyType, handlerCalls, req, dial, ctl, remote, pool>>

\* tunnel(ctx, conn, req.Conn, buf1, buf2) ends: both ends are closed, the
\* deferred function gives the buffers back, ServeConn returns
BindTunnel ==
  /\ pc = "bind_tunnel"
  /\ bind' = TunnelClosesConn(bind)
  /\ join' = PutBuffers(join)
  /\ pc' = "done"
  /\ userCloses' = DeferUserClose(userCloses + 2)
  /\ UNCHANGED <<build, proc, conf, env, hijack, udp, cfg, input, sockPos, matchBuf, unread, served,
                 rd,
                 proxyType, handlerCalls, toClient, req, dial, ctl, remote, pool>>

(***************************************************************************)
(* SOCKS5 UDP ASSOCIATE (handleAssociate).                                 *)
(***************************************************************************)
\* readAddr on the bytes after RSV and FRAG: ATYP ADDR PORT, then the payload
readAddr(bytes) ==
  LET alen == IF Len(bytes) = 0 THEN 0 - 1
              ELSE AddrLen(bytes[1], IF Len(bytes) > 1 THEN bytes[2] ELSE 0)
      need == 1 + alen + 2
  IN IF alen < 0 \/ Len(bytes) < need
     THEN [ok |-> FALSE, addr |-> << >>, rest |-> << >>]
     ELSE [ok |-> TRUE, addr |-> SubSeq(bytes, 1, need),
           rest |-> SubSeq(bytes, need + 1, Len(bytes))]

\* replyPrefix: three zero bytes, then writeAddrWithStr of the target
replyPrefix(target) == <<0, 0, 0>> \o target

\* udpConn.Close()
UdpClose(u) == [u EXCEPT !.st = "closed", !.closes = u.closes + 1]

\* a watcher that leaves the listener open when the control read ends
WatcherCloseMissing(u) == [u EXCEPT !.watcher = "done"]

\* the watcher goroutine after a failed read: udpConn.Close(); break
WatcherClose(u) == [UdpClose(u) EXCEPT !.watcher = "done"]

\* proxyListenPacket, replyPacketForwardAddress, the reply, go watcher
AssocListen ==
  /\ pc = "s5_assoc"
  /\ \E out \in {"listenFailed", "addrFailed", "replied"}, ok \in BOOLEAN :
       IF out = "listenFailed"
       THEN /\ toClient' = ClientWrite("s5reply", <<ErrToReply("listen")>>, ok)
            /\ ServeConnReturn
            /\ UNCHANGED udp
       ELSE IF out = "addrFailed"
       THEN /\ ok
            /\ udp' = UdpClose([udp EXCEPT !.st = "open"])
            /\ ServeConnReturn
            /\ UNCHANGED toClient
       ELSE /\ toClient' = ClientWrite("s5reply", <<successReply>>, ok)
            /\ IF ok
               THEN /\ udp' = [udp EXCEPT !.st = "open", !.watcher = "running"]
                    /\ pc' = "assoc_loop"
                    /\ UNCHANGED userCloses
               ELSE /\ udp' = UdpClose([udp EXCEPT !.st = "open"])
                    /\ ServeConnReturn
  /\ UNCHANGED <<build, bind, proc, conf, env, hijack, cfg, input, sockPos, matchBuf, unread, served, rd, proxyType,
                 handlerCalls, req, dial, ctl, remote, pool, join>>

\* the watcher goroutine: req.Conn.Read of one byte
AssocWatchRead ==
  /\ udp.watcher = "running"
  /\ pc /= "panic"
  /\ IF userCloses > 0 \/ ConnEOF
     THEN /\ udp' = [udp EXCEPT !.watcher = "readFailed"]
          /\ UNCHANGED <<sockPos, unread, served>>
     ELSE \E r \in ConnReads(1) :
            /\ sockPos' = r.sockPos
            /\ unread' = r.unread
            /\ served' = served \o r.data
            /\ UNCHANGED udp
  /\ UNCHANGED <<build, bind, proc, conf, env, hijack, cfg, input, pc, matchBuf, rd, proxyType, handlerCalls, toClient,
                 userCloses, req, dial, ctl, remote, pool, join>>

\* the watcher goroutine: the read failed, close the listener and stop
AssocWatchClose ==
  /\ udp.watcher = "readFailed"
  /\ pc /= "panic"
  /\ udp' = WatcherClose(udp)
  /\ UNCHANGED <<build, bind, proc, conf, env, hijack, cfg, input, pc, sockPos, matchBuf, unread, served, rd, proxyType,
                 handlerCalls, toClient, userCloses, req, dial, ctl, remote, pool, join>>

\* udpConn.ReadFrom fails on the closed listener: return, deferred Close
AssocRecvClosed ==
  /\ pc = "assoc_loop"
  /\ udp.st = "closed"
  /\ udp' = UdpClose(udp)
  /\ ServeConnReturn
  /\ UNCHANGED <<build, bind, proc, conf, env, hijack, cfg, input, sockPos, matchBuf, unread, served, rd, proxyType,
                 handlerCalls, toClient, req, dial, ctl, remote, pool, join>>

\* the loop body for datagram number i, which came from the source
relayFromSource(u, i, data) ==
  LET r == readAddr(SubSeq(data, 4, Len(data)))
  IN IF Len(data) < 3 \/ ~r.ok
     THEN [u |-> u, write |-> FALSE]
     ELSE LET nu == IF u.target = << >>
                    THEN [u EXCEPT !.target = r.addr, !.targetBy = i]
                    ELSE u
          IN IF r.addr /= nu.target
             THEN [u |-> nu, write |-> FALSE]
             ELSE [u |-> [nu EXCEPT !.toTarget =
                            Append(@, [of |-> i, to |-> nu.target, data |-> r.rest])],
                   write |-> TRUE]

\* buf[lo:hi] on the array buf: a slice expression whose upper index is
\* beyond the length of the array panics at run time
SliceInRange(lo, hi) == lo <= hi /\ hi <= maxUdpPacket

\* 'copy(buf[len(replyPrefix):len(replyPrefix)+n], buf[:n])' for a datagram
\* of the target: the payload is moved up in buf to make room for the header
PrependInRange(target, data) ==
  SliceInRange(Len(replyPrefix(target)), Len(replyPrefix(target)) + Len(data))

\* a panic in handleAssociate unwinds the goroutine: the deferred
\* udpConn.Close(), conn.Close() and userConn.Close() run, nothing recovers
ServeConnPanic ==
  /\ pc' = "panic"
  /\ userCloses' = DeferUserClose(userCloses + 1)

\* the loop body for datagram number i, which came from the target
relayFromTarget(u, i, data) ==
  [u |-> [u EXCEPT !.toSource =
            Append(@, [of |-> i, to |-> u.source, data |-> replyPrefix(u.target) \o data])],
   write |-> TRUE]

\* a loop that takes the sender of every datagram as the source
sourceAddrOfLatest(u, from) == [u EXCEPT !.source = from]

\* 'if sourceAddr == nil { sourceAddr = addr }': the sender of the first
\* datagram becomes the source
sourceAddr(u, from) == [u EXCEPT !.source = IF @ = << >> THEN from ELSE @]

\* One iteration of the relay loop on an open listener: ReadFrom returns a
\* datagram, the first one fixes the source, and the datagram is relayed or
\* ignored; a failed WriteTo ends the handler, and so does a datagram of the
\* target that leaves no room for the header in the buffer.
AssocRecv ==
  /\ pc = "assoc_loop"
  /\ udp.st = "open"
  /\ Len(udp.recvd) < MaxDatagrams
  /\ \E d \in Datagrams, ok \in BOOLEAN :
       LET i == Len(udp.recvd) + 1
           u0 == sourceAddr([udp EXCEPT !.recvd = Append(@, d)], d.from)
           res == IF d.from = u0.source THEN relayFromSource(u0, i, d.data)
                  ELSE IF u0.target /= << >> /\ d.from = u0.target
                  THEN relayFromTarget(u0, i, d.data)
                  ELSE [u |-> u0, write |-> FALSE]
           fromTarget == d.from /= u0.source /\ u0.target /= << >> /\ d.from = u0.target
       IN IF fromTarget /\ ~PrependInRange(u0.target, d.data)
          THEN /\ ok
               /\ udp' = UdpClose(u0)
               /\ ServeConnPanic
          ELSE IF res.write /\ ~ok
          THEN /\ udp' = UdpClose(res.u)
               /\ ServeConnReturn
          ELSE /\ (res.write \/ ok)
               /\ udp' = res.u
               /\ UNCHANGED <<pc, userCloses>>
  /\ UNCHANGED <<build, bind, proc, conf, env, hijack, cfg, input, sockPos, matchBuf, unread, served, rd, proxyType,
                 handlerCalls, toClient, req, dial, ctl, remote, pool, join>>

(***************************************************************************)
(* Session joiner (libio.Join, and tunnel of the SOCKS and HTTP servers):  *)
(* two copy directions; when either sees EOF both streams are closed.      *)
(***************************************************************************)
\* what the origin sends back through the tunnel
originData == [i \in 1..MaxOrigin |-> 200 + i]

\* size of a scratch buffer of the tunnel: make([]byte, 32*1024)
scratchLen == 32768

\* a bufConn whose Read goes to the socket although bytes are buffered
bufConnReadSkipsBuffer(reader, plen) ==
  [socket |-> TRUE, data |-> << >>, reader |-> << >>]

\* bufConn.Read(p) with len(p) = plen, reader being the bytes the HTTP
\* reader holds: they are served first, at most plen of them; with none
\* left the reader is dropped and the read goes to the socket
bufConnRead(reader, plen) ==
  IF reader = << >>
  THEN [socket |-> TRUE, data |-> << >>, reader |-> << >>]
  ELSE LET k == Min(Len(reader), plen)
       IN [socket |-> FALSE, data |-> SubSeq(reader, 1, k),
           reader |-> SubSeq(reader, k + 1, Len(reader))]

\* a copy loop that writes every chunk twice
CopyWriteTwice(written, chunk) == written \o chunk \o chunk

\* io.CopyBuffer: the chunk a Read returned is written to the destination
CopyWrite(written, chunk) == written \o chunk

\* client -> tunnel: one Read on the client side and the Write of what it got.
\* After an HTTP CONNECT the client side is the bufConn of newBufConn.
JoinUp ==
  /\ pc \in {"join", "join_closing"}
  /\ ~join.upDone
  /\ join.broken = {}
  /\ IF proxyType = "http" /\ ~bufConnRead(rd, scratchLen).socket
     THEN /\ join' = [join EXCEPT !.up = CopyWrite(@, bufConnRead(rd, scratchLen).data),
                                  !.upRead = @ \o bufConnRead(rd, scratchLen).data,
                                  !.upSrc = @ \o [i \in 1..Len(bufConnRead(rd, scratchLen).data)
                                                    |-> "buffer"]]
          /\ rd' = bufConnRead(rd, scratchLen).reader
          /\ UNCHANGED <<sockPos, unread, served>>
     ELSE IF ConnEOF
     THEN /\ join' = [join EXCEPT !.upDone = TRUE]
          /\ rd' = IF proxyType = "http" THEN bufConnRead(rd, scratchLen).reader ELSE rd
          /\ UNCHANGED <<sockPos, unread, served>>
     ELSE \E r \in ConnReads(MaxRead) :
            /\ sockPos' = r.sockPos
            /\ unread' = r.unread
            /\ served' = served \o r.data
            /\ join' = [join EXCEPT !.up = CopyWrite(@, r.data),
                                    !.upRead = @ \o r.data,
                                    !.upSrc = @ \o [i \in 1..Len(r.data) |-> "socket"]]
            /\ rd' = IF proxyType = "http" THEN bufConnRead(rd, scratchLen).reader ELSE rd
  /\ UNCHANGED <<build, bind, proc, conf, env, hijack, udp, cfg, input, pc, matchBuf, proxyType, handlerCalls, toClient,
                 userCloses, req, dial, ctl, remote, pool>>

\* tunnel -> client: the next byte of the origin, or the origin's EOF
JoinDown ==
  /\ pc \in {"join", "join_closing"}
  /\ ~join.downDone
  /\ join.broken = {}
  /\ \/ /\ join.originPos < Len(originData)
        /\ join' = [join EXCEPT !.originPos = @ + 1,
                                !.downRead = Append(@, originData[join.originPos + 1]),
                                !.down = CopyWrite(@, <<originData[join.originPos + 1]>>)]
        /\ toClient' = ClientWrite("relay", SubSeq(join'.down, Len(join.down) + 1,
                                                   Len(join'.down)), TRUE)
     \/ /\ join' = [join EXCEPT !.downDone = TRUE]
        /\ UNCHANGED toClient
  /\ UNCHANGED <<build, bind, proc, conf, env, hijack, udp, cfg, input, pc, sockPos, matchBuf, unread, served, rd, proxyType,
                 handlerCalls, userCloses, req, dial, ctl, remote, pool>>

\* Close is called on the client stream or on the tunnel stream while the
\* join runs, by another party than the joiner
JoinStreamClosed ==
  /\ pc = "join"
  /\ join.breaks < MaxBreaks
  /\ \E side \in {"client", "tunnel"} :
       /\ join' = [join EXCEPT !.broken = @ \cup {side}, !.breaks = @ + 1]
       /\ IF side = "client"
          THEN /\ userCloses' = userCloses + 1
               /\ UNCHANGED <<remote, pool, ctl>>
          ELSE /\ DeferRemoteClose
               /\ UNCHANGED userCloses
  /\ UNCHANGED <<build, bind, proc, conf, env, hijack, udp, cfg, input, pc, sockPos, matchBuf, unread,
                 served, rd, proxyType, handlerCalls, toClient, req, dial>>

\* a joiner whose copy loops do not notice a closed stream
JoinObserveNothing(j) == j

\* the copy loops on closed streams: the direction that reads the closed
\* stream gets the error of its Read and stops
JoinObserve(j) ==
  [j EXCEPT !.upDone = @ \/ "client" \in j.broken,
            !.downDone = @ \/ "tunnel" \in j.broken]

\* the pending Read of a copy direction returns the error of a closed stream
JoinSeesClose ==
  /\ pc = "join"
  /\ join.broken /= {}
  /\ join' = JoinObserve(join)
  /\ join' /= join
  /\ UNCHANGED <<build, bind, proc, conf, env, hijack, udp, cfg, input, pc, sockPos, matchBuf, unread,
                 served, rd, proxyType, handlerCalls, toClient, userCloses, req, dial, ctl,
                 remote, pool>>

\* a direction has ended: the joiner closes both streams and returns
JoinClose ==
  /\ pc = "join"
  /\ join.upDone \/ join.downDone
  /\ join' = [join EXCEPT !.closed = TRUE]
  /\ remote' = [remote EXCEPT !.closes = @ + 1]
  /\ pool' = CloseRecycle(remote, pool)
  /\ ctl' = CloseOriginal(ctl)
  /\ userCloses' = userCloses + 1
  /\ pc' = "unwind"
  /\ UNCHANGED <<build, bind, proc, conf, env, hijack, udp, cfg, input, sockPos, matchBuf, unread, served, rd, proxyType,
                 handlerCalls, toClient, req, dial>>

\* The Close of the joiner on the tunnel stream, statement by statement.  A
\* direction has ended and the joiner calls Close on the tunnel stream: the
\* first statement of readWriteCloserConn.Close runs recycleFn, which gives
\* the compression state back to the pool
JoinCloseRecycle ==
  /\ pc = "join"
  /\ join.upDone \/ join.downDone
  /\ pool' = CloseRecycle(remote, pool)
  /\ pc' = "join_closing"
  /\ UNCHANGED <<build, bind, proc, conf, env, hijack, udp, cfg, input, sockPos, matchBuf, unread,
                 served, rd, proxyType, handlerCalls, toClient, userCloses, req, dial, ctl,
                 remote, join>>

\* the second statement of readWriteCloserConn.Close, Original.Close(), and
\* the Close of the client stream: the direction that was still copying gets
\* the error of a closed stream, and the joiner returns
JoinCloseOriginal ==
  /\ pc = "join_closing"
  /\ join' = [join EXCEPT !.closed = TRUE, !.upDone = TRUE, !.downDone = TRUE]
  /\ remote' = [remote EXCEPT !.closes = @ + 1]
  /\ ctl' = CloseOriginal(ctl)
  /\ userCloses' = userCloses + 1
  /\ pc' = "unwind"
  /\ UNCHANGED <<build, bind, proc, conf, env, hijack, udp, cfg, input, sockPos, matchBuf, unread,
                 served, rd, proxyType, handlerCalls, toClient, req, dial, pool>>

\* the joiner has returned: the deferred functions run, last first: the
\* buffers go back to the pool (handleConnect, proxyConnect), the tunnel
\* stream is closed (handleConn, handleConnect, proxyConnect), and the
\* handler returns
Unwind ==
  /\ pc = "unwind"
  /\ DeferRemoteClose
  /\ IF proxyType \in {"socks5", "socks4"} THEN ServeConnReturn ELSE HandleConnReturn
  /\ join' = IF proxyType \in {"socks5", "http"} THEN PutBuffers(join) ELSE join
  /\ UNCHANGED <<build, bind, proc, conf, env, hijack, udp, cfg, input, sockPos, matchBuf, unread, served, rd, proxyType,
                 handlerCalls, toClient, req, dial>>

(***************************************************************************)
(* HTTP proxy server.                                                      *)
(***************************************************************************)
StatusOK == 200
StatusNotFound == 404
StatusProxyAuthRequired == 407
StatusInternalServerError == 500

\* the length of the request head in buf (through the first empty line),
\* 0 while the head is incomplete
RECURSIVE HeadEndFrom(_, _)
HeadEndFrom(buf, i) ==
  IF i + 3 > Len(buf) THEN 0
  ELSE IF SubSeq(buf, i, i + 3) = CRLFCRLF THEN i + 3
  ELSE HeadEndFrom(buf, i + 1)

HeadEnd(buf) == HeadEndFrom(buf, 1)

\* the authenticator newHttpServeConn installs: nil unless Users is non-empty
HttpAuthentication(c) == DOMAIN c.Users /= {}

\* the BasicAuthFunc of newHttpServeConn
HttpAuthFunc(c, username, password) == UsersIndex(c.Users, username) = password

\* Authentication.Auth(w, r): Basic credentials of Proxy-Authorization are
\* handed to the function; a missing or malformed header is refused
BasicAuth(c, a) == a.kind = "basic" /\ HttpAuthFunc(c, a.u, a.p)

\* ServeHTTP: which branch serves request r, after the authentication check
\* of the CONNECT and forward branches
ServeHTTP(c, r) ==
  IF r.method = "CONNECT"
  THEN IF HttpAuthentication(c) /\ ~BasicAuth(c, r.auth) THEN "refused" ELSE "proxyConnect"
  ELSE IF r.host /= ""
  THEN IF HttpAuthentication(c) /\ ~BasicAuth(c, r.auth) THEN "refused" ELSE "proxyOther"
  ELSE "notFound"

\* an error report that always answers 502 Bad Gateway
HttpErrorBadGateway(code) == ClientWrite("http", <<502>>, TRUE)

\* http.Error(w, e, code): the status the client gets
HttpError(code) == ClientWrite("http", <<code>>, TRUE)

\* a proxyConnect that does not look at the error of Hijack
proxyConnectIgnoresHijack(dialOk, hijackOk) ==
  IF ~dialOk THEN "dialFailed" ELSE "established"

\* proxyConnect: what it does for the outcomes of proxyDial and of Hijack
proxyConnect(dialOk, hijackOk) ==
  IF ~dialOk THEN "dialFailed"
  ELSE IF ~hijackOk THEN "hijackFailed"
  ELSE "established"

\* handleConn, case "http": newHttpServeConn and ServeConn
DispatchHttp ==
  /\ pc = "dispatch"
  /\ proxyType = "http"
  /\ pc' = "http_read"
  /\ rd' = << >>
  /\ handlerCalls' = Append(handlerCalls, "http")
  /\ UNCHANGED <<build, bind, proc, conf, env, hijack, udp, cfg, input, sockPos, matchBuf, unread, served, proxyType,
                 toClient, userCloses, req, dial, ctl, remote, pool, join>>

\* One read of the HTTP server's buffered reader; when the request head is
\* complete ServeHTTP runs: 407, 404, or the dial of proxyConnect/proxyOther.
HttpRead ==
  /\ pc = "http_read"
  /\ IF ConnEOF
     THEN /\ ServeConnReturn
          /\ UNCHANGED <<sockPos, unread, served, rd, toClient, req, dial>>
     ELSE \E r \in ConnReads(MaxRead) :
            LET buf == rd \o r.data
                end == HeadEnd(buf)
                branch == ServeHTTP(cfg, input.http)
            IN /\ sockPos' = r.sockPos
               /\ unread' = r.unread
               /\ served' = served \o r.data
               /\ IF end = 0
                  THEN /\ rd' = buf
                       /\ UNCHANGED <<pc, userCloses, toClient, req, dial>>
                  ELSE /\ rd' = SubSeq(buf, end + 1, Len(buf))
                       /\ req' = [req EXCEPT !.cmd = IF input.http.method = "CONNECT"
                                                     THEN 1 ELSE 0]
                       /\ IF branch = "refused"
                          THEN /\ toClient' =
                                    ClientWrite("http", <<StatusProxyAuthRequired>>, TRUE)
                               /\ ServeConnReturn
                               /\ UNCHANGED dial
                          ELSE IF branch = "notFound"
                          THEN /\ toClient' = ClientWrite("http", <<StatusNotFound>>, TRUE)
                               /\ ServeConnReturn
                               /\ UNCHANGED dial
                          ELSE /\ pc' = "dial_connect"
                               /\ dial' = DialCall(<<104>>)
                               /\ UNCHANGED <<userCloses, toClient>>
  /\ UNCHANGED <<build, bind, proc, conf, env, hijack, udp, cfg, input, matchBuf, proxyType, handlerCalls, ctl, remote, pool, join>>

\* proxyConnect after proxyDial: 500 on a dial or hijack failure, else the
\* 200 line and the tunnel.  The hijacked connection is not closed by the
\* HTTP server, only by the tunnel and by handleConn.
HttpConnectDialed ==
  /\ pc = "dial_ret"
  /\ proxyType = "http"
  /\ input.http.method = "CONNECT"
  /\ \E hijackOk \in BOOLEAN, bytesPool \in BOOLEAN :
       LET dialOk == dial.err = ""
           branch == proxyConnect(dialOk, hijackOk)
       IN \* Hijack is called only after a successful dial
          /\ dialOk \/ hijackOk
          /\ bytesPool => branch = "established"
          /\ hijack' = IF ~dialOk THEN "none" ELSE IF hijackOk THEN "ok" ELSE "failed"
          /\ IF branch = "dialFailed"
             THEN /\ toClient' = HttpError(StatusInternalServerError)
                  /\ ServeConnReturn
                  /\ UNCHANGED <<join, remote, pool, ctl>>
             ELSE IF branch = "hijackFailed"
             THEN /\ toClient' = HttpError(StatusInternalServerError)
                  /\ DeferRemoteClose
                  /\ ServeConnReturn
                  /\ UNCHANGED join
             ELSE /\ toClient' = ClientWrite("http", <<StatusOK>>, TRUE)
                  /\ StartTunnel(bytesPool)
                  /\ UNCHANGED <<userCloses, remote, pool, ctl>>
  /\ UNCHANGED <<build, bind, proc, conf, env, udp, cfg, input, sockPos, matchBuf, unread, served, rd, proxyType,
                 handlerCalls, req, dial>>

\* proxyOther after the transport's dial: 500 when the request fails, else
\* the response of the origin is copied to the client.  The transport closes
\* the stream on failure, and afterwards either closes it or keeps it idle.
HttpOtherDialed ==
  /\ pc = "dial_ret"
  /\ proxyType = "http"
  /\ input.http.method /= "CONNECT"
  /\ \E respOk \in BOOLEAN, keep \in BOOLEAN :
       IF dial.err /= "" \/ ~dial.conn
       THEN /\ respOk /\ keep
            /\ toClient' = HttpError(StatusInternalServerError)
            /\ ServeConnReturn
            /\ UNCHANGED <<remote, pool, ctl>>
       ELSE /\ toClient' =
                 ClientWrite("http",
                             <<IF respOk THEN StatusOK ELSE StatusInternalServerError>>,
                             TRUE)
            /\ respOk \/ ~keep
            /\ IF keep
               THEN UNCHANGED <<remote, pool, ctl>>
               ELSE DeferRemoteClose
            /\ ServeConnReturn
  /\ UNCHANGED <<build, bind, proc, conf, env, hijack, udp, cfg, input, sockPos, matchBuf, unread, served, rd, proxyType,
                 handlerCalls, req, dial, join>>

(***************************************************************************)
(* SOCKS4 server: VN CD DSTPORT DSTIP USERID NUL, CONNECT only.            *)
(***************************************************************************)
socks4Granted == 90
socks4Rejected == 91

\* the authenticator newSocks4ServeConn installs: nil unless Users is non-empty
S4Authentication(c) == DOMAIN c.Users /= {}

\* the AuthenticationFunc of newSocks4ServeConn: the user id is a key of Users
S4Auth(c, username) == username \in DOMAIN c.Users

\* handleConn, case "socks4": newSocks4ServeConn and ServeConn
DispatchSocks4 ==
  /\ pc = "dispatch"
  /\ proxyType = "socks4"
  /\ pc' = "s4_req"
  /\ rd' = << >>
  /\ handlerCalls' = Append(handlerCalls, "socks4")
  /\ UNCHANGED <<build, bind, proc, conf, env, hijack, udp, cfg, input, sockPos, matchBuf, unread, served, proxyType,
                 toClient, userCloses, req, dial, ctl, remote, pool, join>>

\* the request is complete when the NUL that ends USERID has been read
S4Complete(buf) == Len(buf) >= 9 /\ buf[Len(buf)] = 0

\* One read of the SOCKS4 request; when it is complete the user id is
\* checked and CONNECT dials the origin.
S4Read ==
  /\ pc = "s4_req"
  /\ IF ConnEOF
     THEN /\ ServeConnReturn
          /\ UNCHANGED <<sockPos, unread, served, rd, toClient, req, dial>>
     ELSE \E r \in ConnReads(IF Len(rd) < 8 THEN 8 - Len(rd) ELSE 1) :
            LET buf == rd \o r.data
                uid == SubSeq(buf, 9, Len(buf) - 1)
            IN /\ sockPos' = r.sockPos
               /\ unread' = r.unread
               /\ served' = served \o r.data
               /\ IF ~S4Complete(buf)
                  THEN /\ rd' = buf
                       /\ UNCHANGED <<pc, userCloses, toClient, req, dial>>
                  ELSE /\ rd' = << >>
                       /\ req' = [req EXCEPT !.cmd = buf[2], !.user = uid,
                                             !.addr = SubSeq(buf, 3, 8)]
                       /\ IF buf[2] /= 1 \/ (S4Authentication(cfg) /\ ~S4Auth(cfg, uid))
                          THEN /\ toClient' = ClientWrite("s4reply", <<socks4Rejected>>, TRUE)
                               /\ ServeConnReturn
                               /\ UNCHANGED dial
                          ELSE /\ pc' = "dial_connect"
                               /\ dial' = DialCall(SubSeq(buf, 3, 8))
                               /\ UNCHANGED <<userCloses, toClient>>
  /\ UNCHANGED <<build, bind, proc, conf, env, hijack, udp, cfg, input, matchBuf, proxyType, handlerCalls, ctl, remote, pool, join>>

\* after the dial: 91 on failure, 90 and the tunnel on success
S4Dialed ==
  /\ pc = "dial_ret"
  /\ proxyType = "socks4"
  /\ IF dial.err /= "" \/ ~dial.conn
     THEN /\ toClient' = ClientWrite("s4reply", <<socks4Rejected>>, TRUE)
          /\ ServeConnReturn
          /\ UNCHANGED join
     ELSE /\ toClient' = ClientWrite("s4reply", <<socks4Granted>>, TRUE)
          /\ StartJoin
          /\ UNCHANGED userCloses
  /\ UNCHANGED <<build, bind, proc, conf, env, hijack, udp, cfg, input, sockPos, matchBuf, unread, served, rd, proxyType,
                 handlerCalls, req, dial, ctl, remote, pool>>

\* the state of one session's goroutine
SessionsUnchanged ==
  UNCHANGED <<build, cfg, input, pc, sockPos, matchBuf, unread, served, rd, proxyType,
              handlerCalls, toClient, userCloses, req, dial, ctl, remote, pool, join, hijack, udp,
              bind>>

(***************************************************************************)
(* Cancellation of sv.ctx.  handleConn uses the context for its logger     *)
(* only, DialContext does not use its ctx parameter, and libio.Join takes  *)
(* none: the cancellation changes no stream and no position of the session.*)
(***************************************************************************)
CtxCancel ==
  /\ ~env.cancelled
  /\ env' = [env EXCEPT !.cancelled = TRUE]
  /\ UNCHANGED <<proc, conf>>
  /\ SessionsUnchanged

(***************************************************************************)
(* The visitor process: Run, the two accept loops, and the sessions they   *)
(* start, each in a goroutine of its own.  A session is seen here only by  *)
(* how handleConn ends.                                                    *)
(***************************************************************************)
\* sessions one process accepts
MaxSessions == 2

\* values of BindPort: negative, zero, a port
BindPorts == {0 - 1, 0, 7000}

\* how handleConn returns: after the join ended cleanly, or after the error
\* of the muxer, of a parser, of an authenticator, of the dial, of the copy
SessionOutcomes == {"ok", "classification", "parse", "auth", "dial", "copy"}

\* STCPVisitor.Run: listenOk is the outcome of net.Listen
Run(p, listenOk) ==
  IF p.BindPort > 0
  THEN IF ~listenOk
       THEN [p EXCEPT !.run = "failed"]
       ELSE [p EXCEPT !.run = "returned", !.l = "open", !.worker = "running",
                      !.internalConnWorker = "running"]
  ELSE [p EXCEPT !.run = "returned", !.internalConnWorker = "running"]

\* the listener and the loop field of an accept loop
ListenerOf(loop) == IF loop = "worker" THEN "l" ELSE "internalLn"

\* the sessions of p that ended in an error
Failed(p) ==
  {j \in 1..Len(p.sessions) : p.sessions[j].st = "ended" /\ p.sessions[j].outcome /= "ok"}

\* the goroutine started by go sv.handleConn(conn); failedBefore counts the
\* sessions that had ended in an error when the connection was accepted
NewSession(p, loop) ==
  [via |-> loop, st |-> "running", outcome |-> "", failedBefore |-> Cardinality(Failed(p))]

\* an accept loop that serves one connection and returns
AcceptServesOnce(p, loop) ==
  IF p[ListenerOf(loop)] /= "open"
  THEN [p EXCEPT ![loop] = "returned"]
  ELSE [p EXCEPT !.sessions = Append(@, NewSession(p, loop)),
                 ![loop] = "returned"]

\* one iteration of worker / internalConnWorker: Accept fails on the closed
\* listener and the loop returns, or it yields a connection and the loop
\* starts go sv.handleConn(conn) and goes on
Accept(p, loop) ==
  IF p[ListenerOf(loop)] /= "open"
  THEN [p EXCEPT ![loop] = "returned"]
  ELSE [p EXCEPT !.sessions = Append(@, NewSession(p, loop))]

\* handleConn of session i returns with the outcome given
handleConnReturns(p, i, outcome) ==
  [p EXCEPT !.sessions[i] = [@ EXCEPT !.st = "ended", !.outcome = outcome]]

\* a panic in the goroutine of session i: neither handleConn nor ServeConn
\* defers a recover, so the panic leaves the goroutine and ends the process
handleConnPanics(p, i) ==
  [p EXCEPT !.sessions[i] = [@ EXCEPT !.st = "panicked"], !.alive = FALSE]

\* STCPVisitor.Close: BaseVisitor.Close closes the listeners
CloseListeners(p) ==
  [p EXCEPT !.l = IF @ = "open" THEN "closed" ELSE @, !.internalLn = "closed"]

ProcRun ==
  /\ proc.alive
  /\ proc.run = "none"
  /\ \E listenOk \in BOOLEAN :
       /\ (proc.BindPort > 0 \/ listenOk)
       /\ proc' = Run(proc, listenOk)
  /\ UNCHANGED <<env, conf>>
  /\ SessionsUnchanged

ProcAccept ==
  /\ proc.alive
  /\ \E loop \in {"worker", "internalConnWorker"} :
       /\ proc[loop] = "running"
       /\ proc[ListenerOf(loop)] = "open" => Len(proc.sessions) < MaxSessions
       /\ proc' = Accept(proc, loop)
  /\ UNCHANGED <<env, conf>>
  /\ SessionsUnchanged

ProcSessionReturn ==
  /\ proc.alive
  /\ \E i \in 1..Len(proc.sessions), outcome \in SessionOutcomes :
       /\ proc.sessions[i].st = "running"
       /\ proc' = handleConnReturns(proc, i, outcome)
  /\ UNCHANGED <<env, conf>>
  /\ SessionsUnchanged

ProcSessionPanic ==
  /\ proc.alive
  /\ \E i \in 1..Len(proc.sessions) :
       /\ proc.sessions[i].st = "running"
       /\ proc' = handleConnPanics(proc, i)
  /\ UNCHANGED <<env, conf>>
  /\ SessionsUnchanged

ProcClose ==
  /\ proc.alive
  /\ proc.run /= "none"
  /\ proc.internalLn = "open"
  /\ proc' = CloseListeners(proc)
  /\ UNCHANGED <<env, conf>>
  /\ SessionsUnchanged

(***************************************************************************)
(* The demux trie under construction: the Put calls of the muxer, taken in *)
(* any order.                                                              *)
(***************************************************************************)
TriePut ==
  /\ \E r \in Registrations \ proc.puts :
       proc' = [proc EXCEPT !.trie = Put(@, r.prefix, r.handler), !.puts = @ \cup {r}]
  /\ UNCHANGED <<env, conf>>
  /\ SessionsUnchanged

(***************************************************************************)
(* The dials of concurrent sessions.  Every session runs handleConn in a   *)
(* goroutine of its own; a target session calls DialContext once, an HTTP  *)
(* session once per request it serves.  A dial is seen here by the calls   *)
(* it makes on control streams; streams are numbered in the order          *)
(* ConnectServer hands them out.                                           *)
(***************************************************************************)
\* invocations of DialContext in one run
MaxDials == 3

\* a session that is running, of the kind the muxer gave it
DialSession(kind) ==
  [via |-> "internalConnWorker", st |-> "running", outcome |-> "", failedBefore |-> 0,
   kind |-> kind]

\* the dials session s has made
DialsOf(p, s) == {i \in 1..Len(p.dials) : p.dials[i].session = s}

\* DialContext is entered by session s
DialEnter(p, s) ==
  [p EXCEPT !.dials = Append(@, [session |-> s, at |-> "connect", conn |-> 0,
                                 connects |-> 0, result |-> ""])]

\* sv.helper.ConnectServer(): a stream no one else has, or an error
ConnectServer(p, i, ok) ==
  IF ok
  THEN [p EXCEPT !.streams = Append(@, [out |-> << >>, reads |-> 0, users |-> {}]),
                 !.dials[i] = [@ EXCEPT !.conn = Len(p.streams) + 1,
                                        !.connects = @ + 1, !.at = "write"]]
  ELSE [p EXCEPT !.dials[i] = [@ EXCEPT !.connects = @ + 1, !.at = "returned",
                                        !.result = "error"]]

\* a dial that uses the stream the visitor got last, as if it were kept in a
\* field of the visitor
visitorConnOfVisitor(p, i) == Len(p.streams)

\* visitorConn, a local variable of DialContext
visitorConn(p, i) == p.dials[i].conn

\* msg.WriteMsg(visitorConn, newVisitorConnMsg)
WriteMsg(p, i, ok) ==
  [p EXCEPT !.streams[visitorConn(p, i)] =
              [@ EXCEPT !.users = @ \cup {i},
                        !.out = IF ok THEN Append(@, i) ELSE @],
            !.dials[i] = IF ok THEN [@ EXCEPT !.at = "read"]
                         ELSE [@ EXCEPT !.at = "returned", !.result = "error"]]

\* msg.ReadMsgIntoTimeout(visitorConn, &newVisitorConnRespMsg, 10s) and the
\* return of DialContext
ReadResp(p, i, ok) ==
  [p EXCEPT !.streams[visitorConn(p, i)] =
              [@ EXCEPT !.users = @ \cup {i},
                        !.reads = IF ok THEN @ + 1 ELSE @],
            !.dials[i] = [@ EXCEPT !.at = "returned",
                                   !.result = IF ok THEN "stream" ELSE "error"]]

DialsCall ==
  /\ Len(proc.dials) < MaxDials
  /\ \E s \in 1..Len(proc.sessions) :
       /\ proc.sessions[s].st = "running"
       /\ "kind" \in DOMAIN proc.sessions[s]
       /\ \A i \in DialsOf(proc, s) : proc.dials[i].at = "returned"
       /\ proc.sessions[s].kind = "target" => DialsOf(proc, s) = {}
       /\ proc' = DialEnter(proc, s)
  /\ UNCHANGED <<env, conf>>
  /\ SessionsUnchanged

DialsConnectServer ==
  /\ \E i \in 1..Len(proc.dials), ok \in BOOLEAN :
       /\ proc.dials[i].at = "connect"
       /\ proc' = ConnectServer(proc, i, ok)
  /\ UNCHANGED <<env, conf>>
  /\ SessionsUnchanged

DialsWriteMsg ==
  /\ \E i \in 1..Len(proc.dials), ok \in BOOLEAN :
       /\ proc.dials[i].at = "write"
       /\ proc' = WriteMsg(proc, i, ok)
  /\ UNCHANGED <<env, conf>>
  /\ SessionsUnchanged

DialsReadResp ==
  /\ \E i \in 1..Len(proc.dials), ok \in BOOLEAN :
       /\ proc.dials[i].at = "read"
       /\ proc' = ReadResp(proc, i, ok)
  /\ UNCHANGED <<env, conf>>
  /\ SessionsUnchanged

\* handleConn of a session returns; no dial of it is under way
DialsSessionReturn ==
  /\ \E s \in 1..Len(proc.sessions) :
       /\ proc.sessions[s].st = "running"
       /\ "kind" \in DOMAIN proc.sessions[s]
       /\ \A i \in DialsOf(proc, s) : proc.dials[i].at = "returned"
       /\ proc.sessions[s].kind = "target" => DialsOf(proc, s) /= {}
       /\ proc' = handleConnReturns(proc, s, "ok")
  /\ UNCHANGED <<env, conf>>
  /\ SessionsUnchanged

(***************************************************************************)
(* The session.                                                            *)
(***************************************************************************)
Next ==
  \/ MatchStep
  \/ DispatchTarget
  \/ TargetRead
  \/ DispatchSocks5
  \/ S5Greet
  \/ S5AuthRead
  \/ S5ReqRead
  \/ DispatchHttp
  \/ HttpRead
  \/ DispatchSocks4
  \/ S4Read
  \/ DialConnectServer
  \/ DialWriteMsg
  \/ DialReadResp
  \/ DialWrap
  \/ TargetDialed
  \/ S5Dialed
  \/ AssocListen
  \/ AssocWatchRead
  \/ AssocWatchClose
  \/ AssocRecv
  \/ AssocRecvClosed
  \/ HttpConnectDialed
  \/ HttpOtherDialed
  \/ S4Dialed
  \/ JoinUp
  \/ JoinDown
  \/ JoinClose
  \/ Unwind

Spec == Init /\ [][Next]_vars

\* the TARGET path of the earlier copy of handleConn and DialContext
NextEarlier ==
  \/ MatchStep
  \/ DispatchTarget
  \/ TargetRead
  \/ DialConnectServer
  \/ DialWriteMsg
  \/ DialReadResp
  \/ DialWrap
  \/ TargetDialed
  \/ JoinUp
  \/ JoinDown
  \/ JoinClose
  \/ Unwind

SpecEarlier == InitEarlier /\ [][NextEarlier]_vars

\* a TARGET session whose context may be cancelled at any moment.  The steps
\* that need nothing from a peer are taken when they can be, and the read
\* of the handshake response returns within its deadline; a read of the
\* client or of the tunnel, and a write to them, may block for ever.
InitCancel == InitWith("later", TargetInputs)

NextCancel ==
  \/ MatchStep
  \/ DispatchTarget
  \/ TargetRead
  \/ DialConnectServer
  \/ DialWriteMsg
  \/ DialReadResp
  \/ DialWrap
  \/ TargetDialed
  \/ JoinUp
  \/ JoinDown
  \/ JoinClose
  \/ Unwind
  \/ CtxCancel

\* the TARGET path under every signing configuration and clock reading
InitSign ==
  /\ InitSession("later", TargetInputs, SignConfigs, Timestamps, {NoProc}, {NoConf})
  /\ SessionIdle

NextSign ==
  \/ MatchStep
  \/ DispatchTarget
  \/ TargetRead
  \/ DialConnectServer
  \/ DialWriteMsg
  \/ DialReadResp
  \/ DialWrap
  \/ TargetDialed
  \/ JoinUp
  \/ JoinDown
  \/ JoinClose
  \/ Unwind

SpecSign == InitSign /\ [][NextSign]_vars

\* the TARGET path with the Close of the joiner taken statement by
\* statement, so that the other copy direction runs in between
InitRace == InitWith("later", TargetInputs)

NextRace ==
  \/ MatchStep
  \/ DispatchTarget
  \/ TargetRead
  \/ DialConnectServer
  \/ DialWriteMsg
  \/ DialReadResp
  \/ DialWrap
  \/ TargetDialed
  \/ JoinUp
  \/ JoinDown
  \/ JoinCloseRecycle
  \/ JoinCloseOriginal
  \/ Unwind

SpecRace == InitRace /\ [][NextRace]_vars

\* the sessions that ask for a BIND
InitBind == InitWith("later", BindInputs)

NextBind ==
  \/ MatchStep
  \/ DispatchSocks5
  \/ S5Greet
  \/ S5AuthRead
  \/ S5ReqRead
  \/ BindListen
  \/ BindAccept
  \/ BindTunnel

SpecBind == InitBind /\ [][NextBind]_vars

\* the TARGET path with a rendezvous that may never answer; a read that can
\* return does return
InitTimeout ==
  /\ build = "later"
  /\ cfg \in Configs
  /\ input \in TargetInputs
  /\ env \in {[EnvAt(10) EXCEPT !.silent = b] : b \in BOOLEAN}
  /\ proc = NoProc
  /\ conf = NoConf
  /\ SessionIdle

SpecTimeout == InitTimeout /\ [][NextSign]_vars /\ WF_vars(DialReadResp)

SpecCancel ==
  /\ InitCancel
  /\ [][NextCancel]_vars
  /\ WF_vars(DispatchTarget)
  /\ WF_vars(DialReadResp)
  /\ WF_vars(DialWrap)
  /\ WF_vars(TargetDialed)
  /\ WF_vars(JoinClose)
  /\ WF_vars(Unwind)

\* a TARGET session whose streams may be closed under the running join; a
\* Read on a closed stream returns, and the joiner then runs to its end
InitJoin == InitWith("later", TargetInputs)

NextJoin ==
  \/ MatchStep
  \/ DispatchTarget
  \/ TargetRead
  \/ DialConnectServer
  \/ DialWriteMsg
  \/ DialReadResp
  \/ DialWrap
  \/ TargetDialed
  \/ JoinUp
  \/ JoinDown
  \/ JoinStreamClosed
  \/ JoinSeesClose
  \/ JoinClose
  \/ Unwind

SpecJoin ==
  /\ InitJoin
  /\ [][NextJoin]_vars
  /\ WF_vars(JoinSeesClose)
  /\ WF_vars(JoinClose)
  /\ WF_vars(Unwind)

(***************************************************************************)
(* Configuration loading (LoadConfigure).  A document is its format and    *)
(* its top-level entries in the order they are written; the target         *)
(* configuration has the fields KnownKeys.                                 *)
(***************************************************************************)
\* most entries a document has
MaxKeys == 2

\* fields of the target configuration (json tags of v1.ServerConfig) that
\* the tests set
KnownKeys == {"bindAddr", "custom404Page", "kcpBindPort"}

\* misspelt keys, as the strict-mode test makes one
TypoKeys == {"bindAdur", "kcpBindPrt"}

\* all keys in the byte order of their names, the order json.Marshal writes
\* the keys of a map in
KeyOrder == <<"bindAddr", "bindAdur", "custom404Page", "kcpBindPort", "kcpBindPrt">>

KeyRank(k) == CHOOSE i \in 1..Len(KeyOrder) : KeyOrder[i] = k

Entries == [key : KnownKeys \cup TypoKeys, val : {"127.0.0.1", "7000"}]

Formats == {"yaml", "json", "toml"}

\* the documents: entries with distinct keys, in any order
Documents ==
  [format : Formats,
   entries : {e \in UNION {[1..n -> Entries] : n \in 0..MaxKeys} :
                \A i, j \in 1..Len(e) : i /= j => e[i].key /= e[j].key}]

\* toml.Unmarshal(b, &tomlObj) succeeds: b is a TOML document; the empty
\* YAML document is an empty TOML document too
IsTOML(b) == b.format = "toml" \/ (b.format = "yaml" /\ b.entries = << >>)

\* json.Marshal of a map: an object with the keys sorted
RECURSIVE SortByKey(_)
SortByKey(e) ==
  IF e = << >> THEN << >>
  ELSE LET i == CHOOSE x \in 1..Len(e) :
                  \A y \in 1..Len(e) : KeyRank(e[x].key) <= KeyRank(e[y].key)
       IN <<e[i]>> \o SortByKey(SubSeq(e, 1, i - 1) \o SubSeq(e, i + 1, Len(e)))

Marshal(b) == [format |-> "json", entries |-> SortByKey(b.entries)]

\* yaml.IsJSONBuffer: the first character that is no space is '{'
IsJSONBuffer(b) == b.format = "json"

\* json.Decoder.Decode into the configuration: the entries are taken in
\* order; a key that is no field is skipped, or ends the decoding with an
\* error that names it when unknown fields are disallowed
RECURSIVE Decode(_, _, _)
Decode(e, disallowUnknownFields, fields) ==
  IF e = << >> THEN [err |-> FALSE, key |-> "", fields |-> fields]
  ELSE IF Head(e).key \in KnownKeys
  THEN Decode(Tail(e), disallowUnknownFields, fields \cup {Head(e)})
  ELSE IF disallowUnknownFields
  THEN [err |-> TRUE, key |-> Head(e).key, fields |-> fields]
  ELSE Decode(Tail(e), disallowUnknownFields, fields)

\* yaml.Unmarshal and yaml.UnmarshalStrict: the document is converted to
\* JSON (through a map, hence with sorted keys) and decoded as JSON
Unmarshal(b) == Decode(Marshal(b).entries, FALSE, {})
UnmarshalStrict(b) == Decode(Marshal(b).entries, TRUE, {})

\* a LoadConfigure whose JSON decoder never disallows unknown fields
LoadConfigureLenientJSON(b, strict) ==
  LET b2 == IF IsTOML(b) THEN Marshal(b) ELSE b
  IN IF IsJSONBuffer(b2)
     THEN Decode(b2.entries, FALSE, {})
     ELSE IF strict THEN UnmarshalStrict(b2) ELSE Unmarshal(b2)

\* LoadConfigure(b, c, strict)
LoadConfigure(b, strict) ==
  LET b2 == IF IsTOML(b) THEN Marshal(b) ELSE b
  IN IF IsJSONBuffer(b2)
     THEN Decode(b2.entries, strict, {})
     ELSE IF strict THEN UnmarshalStrict(b2) ELSE Unmarshal(b2)

\* LoadConfigure(b, c) of the earlier copy, for YAML only
LoadConfigureEarlier(b) == UnmarshalStrict(b)

\* one call of LoadConfigure on the document at hand
Load ==
  /\ conf.st = "none"
  /\ conf.doc.format /= ""
  /\ conf' = [conf EXCEPT !.st = "loaded",
                          !.result = IF build = "earlier"
                                     THEN LoadConfigureEarlier(conf.doc)
                                     ELSE LoadConfigure(conf.doc, conf.strict)]
  /\ UNCHANGED <<build, bind, proc, env, hijack, udp, cfg, input, sockPos, matchBuf, unread, served, rd,
                 proxyType, handlerCalls, toClient, userCloses, req, dial, remote, pool, ctl,
                 join, pc>>

\* the calls of LoadConfigure: any document and either mode in the later
\* copy; YAML and JSON documents, always strict, in the earlier one
LoadCalls(b) ==
  {[NoConf EXCEPT !.doc = d, !.strict = st] :
     d \in {x \in Documents : b = "earlier" => x.format /= "toml"},
     st \in {x \in BOOLEAN : b = "earlier" => x}}

InitLoad ==
  /\ \E b \in {"earlier", "later"} :
       InitSession(b, {[bytes |-> << >>, http |-> NoReq]},
                   {c \in Configs : ~c.UseEncryption /\ ~c.UseCompression /\ c.Users = NoUsers},
                   {10}, {NoProc}, LoadCalls(b))
  /\ SessionIdle

NextLoad == Load

SpecLoad == InitLoad /\ [][NextLoad]_vars

\* the construction of the trie, from the empty one
InitTrie ==
  /\ InitSession("later", {[bytes |-> << >>, http |-> NoReq]},
                 {c \in Configs : ~c.UseEncryption /\ ~c.UseCompression /\ c.Users = NoUsers},
                 {10}, {NoProc}, {NoConf})
  /\ SessionIdle

NextTrie == TriePut

SpecTrie == InitTrie /\ [][NextTrie]_vars

\* MaxSessions sessions at work, classified as target or HTTP sessions
InitDials ==
  /\ InitSession("later", {[bytes |-> << >>, http |-> NoReq]},
                 {c \in Configs : ~c.UseEncryption /\ ~c.UseCompression /\ c.Users = NoUsers},
                 {10},
                 {[NoProc EXCEPT !.run = "returned", !.internalConnWorker = "running",
                                 !.sessions = [s \in 1..MaxSessions |-> DialSession(kinds[s])]] :
                    kinds \in [1..MaxSessions -> {"target", "http"}]},
                 {NoConf})
  /\ SessionIdle

NextDials ==
  \/ DialsCall
  \/ DialsConnectServer
  \/ DialsWriteMsg
  \/ DialsReadResp
  \/ DialsSessionReturn

SpecDials == InitDials /\ [][NextDials]_vars

\* the visitor process around its sessions
InitProc ==
  /\ InitSession("later", {[bytes |-> << >>, http |-> NoReq]},
                 {c \in Configs : ~c.UseEncryption /\ ~c.UseCompression /\ c.Users = NoUsers},
                 {10}, {[NoProc EXCEPT !.BindPort = bp] : bp \in BindPorts}, {NoConf})
  /\ SessionIdle

NextProc ==
  \/ ProcRun
  \/ ProcAccept
  \/ ProcSessionReturn
  \/ ProcSessionPanic
  \/ ProcClose

SpecProc == InitProc /\ [][NextProc]_vars

\* the UDP association alone, with its scheduling: the watcher goroutine runs
\* when it can, and a ReadFrom on a closed listener returns
InitAssoc == InitWith("later", AssocInputs)

NextAssoc ==
  \/ MatchStep
  \/ DispatchSocks5
  \/ S5Greet
  \/ S5AuthRead
  \/ S5ReqRead
  \/ AssocListen
  \/ AssocWatchRead
  \/ AssocWatchClose
  \/ AssocRecv
  \/ AssocRecvClosed

SpecAssoc ==
  /\ InitAssoc
  /\ [][NextAssoc]_vars
  /\ WF_vars(AssocWatchRead)
  /\ WF_vars(AssocWatchClose)
  /\ WF_vars(AssocRecvClosed)

(***************************************************************************)
(* Properties.                                                             *)
(***************************************************************************)
\* some write on the client stream has this kind and these bytes
Wrote(kind, data) ==
  \E i \in 1..Len(toClient) : toClient[i].kind = kind /\ toClient[i].data = data

\* DialContext has returned a failure after ConnectServer gave it a stream
DialFailedWithStream == dial.st = "returned" /\ ~dial.conn /\ ctl.opened > 0

\* C1: once ConnectServer has returned a control stream, every failure return
\* of DialContext has closed that stream: no failed dial leaves it open.
C1_FailedDialClosesStream == DialFailedWithStream => ctl.st = "closed"

\* C2: for a tunnel stream created with compression, the recycle hook runs
\* exactly once over the stream's lifetime, whatever Close calls the joiner
\* and the deferred Close of handleConn, of the SOCKS5 CONNECT handler and of
\* the HTTP CONNECT handler make: never more than once, and once as soon as
\* the stream has been closed.
C2_RecycleExactlyOnce ==
  (proxyType \in {"target", "socks5", "http"} /\ remote.made /\ remote.recycleFn) =>
    /\ pool.recycled <= 1
    /\ remote.closes > 0 => pool.recycled = 1

\* the NewVisitorConn exchange is complete: the message has been written and
\* a response with an empty Error has been read
ExchangeComplete == Len(ctl.out) = 1 /\ ctl.resp = ""

\* C3: no payload byte passes between client and tunnel before the exchange
\* is complete; and a session whose exchange did not complete never joins,
\* its tunnel stream is torn down and it holds no compression state.
C3_HandshakeAtomicity ==
  /\ (join.started \/ join.up /= << >> \/ join.down /= << >>) => ExchangeComplete
  /\ (pc = "done" /\ ctl.opened > 0 /\ ~ExchangeComplete) =>
       /\ ~join.started
       /\ ctl.st = "closed"
       /\ pool.acquired = pool.recycled

\* C4: a response with a non-empty Error makes DialContext return an error
\* and no stream; DialContext never returns a nil stream with a nil error.
C4_RemoteErrorIsAnError ==
  dial.st = "returned" =>
    /\ (ctl.resp \notin {"", "unread"}) => (dial.err /= "" /\ ~dial.conn)
    /\ ~(~dial.conn /\ dial.err = "")

\* C5: what the replayed connection hands to the selected handler is the
\* client's byte sequence from its first byte on: the bytes the demux
\* consumed first, then the rest of the socket, nothing added, dropped,
\* duplicated or reordered.
C5_Replay ==
  proxyType /= "" =>
    /\ served = SubSeq(input.bytes, 1, Len(served))
    /\ Len(served) + Len(unread) = sockPos
    /\ ConnEOF => served = input.bytes

\* C5 witness: a classified session whose handler has read the consumed
\* bytes and then everything else the client sent
C5_Witness ==
  /\ proxyType /= ""
  /\ ConnEOF
  /\ Len(served) > Len(matchBuf)
  /\ served = input.bytes

\* the methods of the greeting the client sends (the greeting is complete)
GreetComplete(bytes) == Len(bytes) >= 2 /\ Len(bytes) >= 2 + bytes[2]

GreetMethods(bytes) == SubSeq(bytes, 3, 2 + bytes[2])

\* the method required for this configuration and greeting
RequiredMethod ==
  IF DOMAIN cfg.Users /= {}
  THEN IF Offers(GreetMethods(input.bytes), 2) THEN 2 ELSE 255
  ELSE IF Offers(GreetMethods(input.bytes), 0) THEN 0 ELSE 255

\* C6: with an authenticator the SOCKS5 server never selects no-auth; a
\* greeting without user/password gets 0xFF and is dropped; no request
\* header is parsed and no dial is made unless the sub-negotiation
\* succeeded.  Without an authenticator no-auth is selected only when
\* offered, else 0xFF and drop.
C6_MethodSelection ==
  proxyType = "socks5" =>
    /\ \A i \in 1..Len(toClient) :
         toClient[i].kind = "s5method" =>
           i = 1 /\ toClient[i].data = <<5, RequiredMethod>>
    /\ (GreetComplete(input.bytes) /\ pc \notin {"dispatch", "s5_greet"}) =>
         (toClient /= << >> /\ toClient[1].kind = "s5method")
    /\ Wrote("s5method", <<5, 255>>) =>
         (pc = "done" /\ Len(toClient) = 1 /\ dial.calls = 0 /\ req.cmd = 0
          /\ userCloses > 0)
    /\ (DOMAIN cfg.Users /= {} /\ (pc = "s5_req" \/ req.cmd /= 0 \/ dial.calls > 0)) =>
         Wrote("s5auth", <<1, 0>>)

\* C6 witness: an authenticator is configured, the client offers no-auth
\* only, the answer is 0xFF and the session is over
C6_Witness ==
  /\ proxyType = "socks5"
  /\ DOMAIN cfg.Users /= {}
  /\ GreetComplete(input.bytes)
  /\ GreetMethods(input.bytes) = <<0>>
  /\ Wrote("s5method", <<5, 255>>)
  /\ pc = "done"

\* the pair is a user of Users with that user's password
ValidPair(u, p) == u \in DOMAIN cfg.Users /\ cfg.Users[u] = p

\* C7: with Users non-empty a SOCKS5 or HTTP Basic pair is accepted only if
\* the username is a key of Users and the password is the one mapped to it;
\* any other pair gets the failure reply and causes no dial.
C7_OnlyMatchingPairs ==
  DOMAIN cfg.Users /= {} =>
    /\ (proxyType = "socks5" /\ (Wrote("s5auth", <<1, 0>>) \/ dial.calls > 0)) =>
         ValidPair(req.user, req.pass)
    /\ (proxyType = "http" /\ dial.calls > 0) =>
         (input.http.auth.kind = "basic"
          /\ ValidPair(input.http.auth.u, input.http.auth.p))

\* the request is a CONNECT or a forward-proxy request that has been served
HttpProxyRequestServed ==
  /\ proxyType = "http"
  /\ input.http.method = "CONNECT" \/ input.http.host /= ""
  /\ pc \notin {"dispatch", "http_read"}

\* C8: with Users non-empty a CONNECT or forward request whose
\* Proxy-Authorization is missing or invalid gets 407 and never reaches the
\* tunnel dialer.
C8_Unauthorized407 ==
  (/\ DOMAIN cfg.Users /= {}
   /\ HttpProxyRequestServed
   /\ ~(input.http.auth.kind = "basic"
        /\ ValidPair(input.http.auth.u, input.http.auth.p))) =>
    /\ dial.calls = 0
    /\ toClient = <<[kind |-> "http", data |-> <<407>>, ok |-> TRUE]>>

\* the authentication check precedes proxyConnect and proxyOther: no dial
\* for a request the authenticator refused
HttpAuthBeforeDial ==
  (DOMAIN cfg.Users /= {} /\ proxyType = "http" /\ dial.calls > 0) =>
    BasicAuth(cfg, input.http.auth)

\* the registered prefixes
Registered ==
  PatternHTTP \cup PatternHTTP2 \cup PatternSOCKS5 \cup PatternSOCKS4 \cup {B_TARGET}

\* the client's first bytes match no registered prefix, or end before one
Miss(bytes) == \A p \in Registered : ~IsPrefix(p, bytes)

\* C9: when the first bytes match no registered prefix, or the read fails
\* during classification, the session is dropped: nothing is written to the
\* client, no handler is called, DialContext is not called, and the client
\* stream is closed.
C9_MissDrops ==
  Miss(input.bytes) =>
    /\ toClient = << >>
    /\ handlerCalls = << >>
    /\ dial.calls = 0
    /\ proxyType = ""
    /\ pc \in {"mux", "done"}
    /\ pc = "done" => userCloses = 1

\* C9 witness: a session dropped on a miss after some bytes were consumed
C9_Witness == Miss(input.bytes) /\ pc = "done" /\ sockPos > 1 /\ userCloses = 1

\* the path b of the trie is a node that is not terminal
Inner(b) == HasNode(handlerTrie, b) /\ ~Terminal(handlerTrie, b)

\* the number of bytes a match over these bytes must pull: up to the first
\* terminal node or absent child, or all of them when neither comes
StopLen(bytes) ==
  IF \E n \in 1..Len(bytes) : ~Inner(SubSeq(bytes, 1, n))
  THEN CHOOSE n \in 1..Len(bytes) :
         /\ ~Inner(SubSeq(bytes, 1, n))
         /\ \A k \in 1..(n - 1) : Inner(SubSeq(bytes, 1, k))
  ELSE Len(bytes)

\* C10: MatchWithReader pulls one byte at a time and stops at the first
\* terminal node, absent child or read error; consumed_bytes is exactly the
\* bytes pulled, in order, also on a miss; nothing is read past a terminal,
\* and the tag and the consumed bytes are determined by the input.
C10_MatchWithReader ==
  /\ matchBuf = SubSeq(input.bytes, 1, Len(matchBuf))
  /\ Len(matchBuf) <= StopLen(input.bytes)
  /\ pc = "mux" =>
       /\ sockPos = Len(matchBuf)
       /\ \A k \in 1..Len(matchBuf) : Inner(SubSeq(matchBuf, 1, k))
  /\ pc /= "mux" =>
       /\ Len(matchBuf) = StopLen(input.bytes)
       /\ proxyType =
            IF Terminal(handlerTrie, matchBuf) THEN handlerTrie.tag[matchBuf] ELSE ""
  /\ pc = "dispatch" => sockPos = Len(matchBuf)

\* C10 witness: a match that ended on a terminal node after several bytes
C10_Witness ==
  /\ pc = "dispatch"
  /\ Len(matchBuf) > 2
  /\ Terminal(handlerTrie, matchBuf)
  /\ Len(input.bytes) > Len(matchBuf)

\* the position of the first ';' of the bytes, 0 when there is none
FirstSemi(bytes) ==
  IF \E i \in 1..Len(bytes) : bytes[i] = 59
  THEN CHOOSE i \in 1..Len(bytes) :
         bytes[i] = 59 /\ \A k \in 1..(i - 1) : bytes[k] /= 59
  ELSE 0

\* the text between the leading 'TARGET ' and the first ';'
HeadAddress(bytes) == SubSeq(bytes, Len(B_TARGET) + 1, FirstSemi(bytes) - 1)

\* C11: on a target connection ParseTargetHead consumes the bytes through
\* the first ';' and not one more; the address it returns is the text
\* between 'TARGET ' and that ';', and it is the TargetAddr of the
\* NewVisitorConn message; every client byte after the ';' reaches the
\* tunnel stream verbatim and in order.
C11_TargetHead ==
  proxyType = "target" =>
    LET n == FirstSemi(input.bytes)
    IN /\ pc = "tg_parse" =>
            (rd = served /\ \A i \in 1..(Len(rd) - 1) : rd[i] /= 59)
       /\ dial.calls > 0 =>
            /\ n > 0
            /\ rd = SubSeq(input.bytes, 1, n)
            /\ dial.target = HeadAddress(input.bytes)
            /\ \A i \in 1..Len(ctl.out) : ctl.out[i].TargetAddr = HeadAddress(input.bytes)
       /\ (dial.calls > 0 /\ ~join.started) => (served = rd /\ sockPos = n)
       /\ join.started =>
            /\ join.up = SubSeq(input.bytes, n + 1, n + Len(join.up))
            /\ served = rd \o join.up
       /\ join.upDone => n + Len(join.up) = Len(input.bytes)

\* C11 witness: a target session whose payload, with a further ';' in it,
\* has all reached the tunnel stream
C11_Witness ==
  /\ proxyType = "target"
  /\ Len(ctl.out) = 1
  /\ ctl.out[1].TargetAddr = AddrA1
  /\ join.upDone
  /\ join.up = <<121, 59>>

\* the address has the form host:port, with no whitespace
WellFormedAddr(a) ==
  /\ \E i \in 2..(Len(a) - 1) : a[i] = 58
  /\ \A i \in 1..Len(a) : a[i] /= 32

\* a TARGET header that is not of the form 'TARGET <host>:<port>;'
MalformedTarget(bytes) ==
  /\ IsPrefix(B_TARGET, bytes)
  /\ FirstSemi(bytes) = 0 \/ ~WellFormedAddr(HeadAddress(bytes))

\* C12: a malformed TARGET header makes the session drop: no reply is sent
\* to the client and no control channel is opened to the rendezvous.
C12_MalformedTargetDrops ==
  MalformedTarget(input.bytes) =>
    /\ toClient = << >>
    /\ dial.calls = 0
    /\ ctl.opened = 0
    /\ pc \in {"mux", "dispatch", "tg_parse", "done"}

\* an HTTP CONNECT request whose head has been served
IsConnect == proxyType = "http" /\ input.http.method = "CONNECT"

\* the number of writes of this status on the client stream
StatusCount(code) ==
  Cardinality({i \in 1..Len(toClient) :
                 toClient[i].kind = "http" /\ toClient[i].data = <<code>>})

\* C14: in the HTTP proxy a failure of the origin dial or of the hijack
\* during CONNECT is reported as status 500, the 200 Connection Established
\* line is not written, and the dialed stream, if there is one, is closed.
C14_ConnectFailure500 ==
  (IsConnect /\ pc = "done" /\ dial.st = "returned"
     /\ (dial.err /= "" \/ hijack = "failed")) =>
    /\ toClient = <<[kind |-> "http", data |-> <<500>>, ok |-> TRUE]>>
    /\ StatusCount(200) = 0
    /\ ~join.started
    /\ remote.made => (remote.closes > 0 /\ ctl.st = "closed")

\* C14 witness: the dial succeeded, the hijack failed, 500 was sent and the
\* dialed stream is closed
C14_Witness ==
  /\ IsConnect
  /\ pc = "done"
  /\ hijack = "failed"
  /\ remote.made
  /\ remote.closes = 1
  /\ StatusCount(500) = 1

\* an HTTP proxy request, CONNECT or forward, whose tunnel could not be opened
TunnelOpenFailed ==
  /\ proxyType = "http"
  /\ pc = "done"
  /\ dial.st = "returned"
  /\ dial.err \in {"connect", "write", "read", "remote"}

\* C15 (as stated): a tunnel-open failure during an HTTP proxy request is
\* surfaced to the HTTP client as status 502 or 504.
C15_TunnelFailure502or504 ==
  TunnelOpenFailed => (StatusCount(502) + StatusCount(504) = 1)

\* C15 (amended): a tunnel-open failure during an HTTP proxy request is
\* surfaced to the HTTP client as status 500, and nothing else is written.
C15_TunnelFailure500 ==
  TunnelOpenFailed =>
    (Len(toClient) = 1 /\ toClient[1].kind = "http" /\ toClient[1].data = <<500>>)

\* C15 witness: a forward request whose rendezvous answered with an Error
C15_Witness ==
  /\ TunnelOpenFailed
  /\ input.http.method = "GET"
  /\ dial.err = "remote"
  /\ StatusCount(500) = 1

\* the index of the first write of this kind on the client stream, 0 if none
FirstOf(kind) ==
  IF \E i \in 1..Len(toClient) : toClient[i].kind = kind
  THEN CHOOSE i \in 1..Len(toClient) :
         toClient[i].kind = kind /\ \A k \in 1..(i - 1) : toClient[k].kind /= kind
  ELSE 0

\* C16: for an HTTP CONNECT the 200 Connection Established line is written
\* exactly once, only after the origin dial and the hijack both succeeded,
\* and before any byte of the origin is relayed to the client.
C16_EstablishedOnce ==
  IsConnect =>
    /\ StatusCount(200) <= 1
    /\ StatusCount(200) = 1 =>
         (dial.st = "returned" /\ dial.conn /\ dial.err = "" /\ hijack = "ok")
    /\ (dial.st = "returned" /\ dial.err = "" /\ hijack = "ok") => StatusCount(200) = 1
    /\ FirstOf("relay") > 0 =>
         (toClient[1].data = <<200>> /\ toClient[1].kind = "http" /\ FirstOf("relay") > 1)
    /\ join.started => StatusCount(200) = 1

\* C16 witness: the line was written and bytes of the origin followed it
C16_Witness ==
  /\ IsConnect
  /\ StatusCount(200) = 1
  /\ Len(toClient) = 3
  /\ toClient[3].kind = "relay"

\* the bytes of the request head, through the empty line
HeadLen == HeadEnd(input.bytes)

\* C17: after an HTTP CONNECT is established the client bytes the HTTP
\* reader had buffered go to the origin before any byte read from the
\* socket, in order and once each; with the buffer drained every read goes
\* to the socket.
C17_BufferedFirst ==
  (IsConnect /\ join.started) =>
    /\ served = SubSeq(input.bytes, 1, HeadLen) \o join.up \o rd
    /\ rd /= << >> => join.up = << >>
    /\ Len(join.upSrc) = Len(join.up)
    /\ \A i, j \in 1..Len(join.upSrc) :
         (i < j /\ join.upSrc[i] = "socket") => join.upSrc[j] = "socket"
    /\ join.up = SubSeq(input.bytes, HeadLen + 1, HeadLen + Len(join.up))
    /\ join.upDone => (rd = << >> /\ HeadLen + Len(join.up) = Len(input.bytes))

\* C17 witness: one byte came from the buffer and the next from the socket
C17_Witness ==
  /\ IsConnect
  /\ join.started
  /\ join.up = <<121, 122>>
  /\ join.upSrc = <<"buffer", "socket">>
  /\ rd = << >>


(***************************************************************************)
(* SOCKS5 CONNECT replies                                                  *)
(***************************************************************************)
\* a SOCKS5 CONNECT session whose dial has been attempted and handled
S5ConnectHandled ==
  /\ proxyType = "socks5"
  /\ req.cmd = ConnectCommand
  /\ dial.st = "returned"
  /\ pc /= "dial_ret"

\* positions of the SOCKS5 replies among the writes to the client
S5Replies == {i \in 1..Len(toClient) : toClient[i].kind = "s5reply"}

\* reply codes a failed dial may be answered with
FailureReplies == {1, 3, 4, 5}

\* C13: every SOCKS5 CONNECT whose dial was attempted is answered exactly
\* once, before any relayed byte: success with the local port of the dialed
\* stream exactly when the dial succeeded, otherwise a failure code among
\* 1, 3, 4, 5 and no join.
C13_ConnectReply ==
  S5ConnectHandled =>
    /\ Cardinality(S5Replies) = 1
    /\ \A i \in S5Replies :
         /\ (toClient[i].data = <<successReply, ctl.port>>) <=> (dial.err = "")
         /\ dial.err /= "" =>
              /\ Len(toClient[i].data) = 1
              /\ toClient[i].data[1] \in FailureReplies
              /\ ~join.started
         /\ \A j \in 1..Len(toClient) : toClient[j].kind = "relay" => i < j

\* C13, the part the code keeps: at most one reply, of the right kind, before
\* any relayed byte, and no join without a delivered success reply.
C13_ReplyWhenSent ==
  (proxyType = "socks5" /\ req.cmd = ConnectCommand) =>
    /\ Cardinality(S5Replies) <= 1
    /\ \A i \in S5Replies :
         /\ dial.st = "returned"
         /\ (toClient[i].data = <<successReply, ctl.port>>) <=> (dial.err = "")
         /\ dial.err /= "" => toClient[i].data[1] \in FailureReplies /\ ~join.started
         /\ \A j \in 1..Len(toClient) : toClient[j].kind = "relay" => i < j
    /\ join.started => \E i \in S5Replies : toClient[i].ok

\* a dial that succeeded and was never answered
C13_NoReplyState ==
  S5ConnectHandled /\ dial.err = "" /\ S5Replies = {} /\ pc = "done"

(***************************************************************************)
(* SOCKS5 UDP ASSOCIATE relay                                              *)
(***************************************************************************)
IsAssoc == proxyType = "socks5" /\ req.cmd = AssociateCommand

\* datagram number i came from the source of the association
FromSource(i) == udp.recvd[i].from = udp.source

\* what readAddr finds behind RSV and FRAG of datagram number i
Decoded(i) == readAddr(SubSeq(udp.recvd[i].data, 4, Len(udp.recvd[i].data)))

\* datagram number i is a fragment sent by the source
Fragment(i) ==
  FromSource(i) /\ Len(udp.recvd[i].data) >= 3 /\ udp.recvd[i].data[3] /= 0

\* datagram number i is a whole datagram of the source with a decodable header
WellFormed(i) ==
  /\ FromSource(i)
  /\ Len(udp.recvd[i].data) >= 3
  /\ udp.recvd[i].data[3] = 0
  /\ Decoded(i).ok

\* datagram number i came from the target, after the target was defined
FromTarget(i) ==
  /\ ~FromSource(i)
  /\ udp.targetBy > 0
  /\ udp.targetBy < i
  /\ udp.recvd[i].from = udp.target

\* the writes to the target, to the source, made for datagram number i
ToTargetOf(i) == {k \in 1..Len(udp.toTarget) : udp.toTarget[k].of = i}
ToSourceOf(i) == {k \in 1..Len(udp.toSource) : udp.toSource[k].of = i}

\* C18: a datagram of the source whose FRAG byte is not zero is dropped: it
\* is never forwarded to the target and never defines the target.
C18_FragmentsDropped ==
  \A i \in 1..Len(udp.recvd) :
    Fragment(i) => (udp.targetBy /= i /\ ToTargetOf(i) = {})

\* C19 as stated: once source and target are defined, every well-formed
\* datagram of the source is forwarded to the target as its payload only, and
\* every datagram of the target is forwarded to the source as the synthesized
\* header that encodes the target followed by the unchanged payload.
C19_EveryDatagramRelayed ==
  \A i \in 1..Len(udp.recvd) :
    /\ WellFormed(i) =>
         \E k \in ToTargetOf(i) :
           udp.toTarget[k].to = udp.target /\ udp.toTarget[k].data = Decoded(i).rest
    /\ FromTarget(i) =>
         \E k \in ToSourceOf(i) :
           /\ udp.toSource[k].to = udp.source
           /\ udp.toSource[k].data = replyPrefix(udp.target) \o udp.recvd[i].data

\* the control read of the watcher has ended
ControlReadEnded == udp.watcher = "readFailed"

SessionFails(i) ==
  /\ proc.sessions[i].st = "running"
  /\ proc'.sessions[i].st = "ended"
  /\ proc'.sessions[i].outcome /= "ok"

C22_PanicContained ==
  \A i \in 1..Len(proc.sessions) :
    proc.sessions[i].st = "panicked" =>
      (proc.alive /\ proc.sessions[i].outcome = "copy")

\* C23: Run starts the external accept loop only when BindPort > 0, and the
\* internal accept loop has been started whenever Run has been invoked,
\* whatever BindPort is and however the external listen ended.
C23_RunStartsLoops ==
  /\ proc.worker /= "none" => proc.BindPort > 0
  /\ proc.run /= "none" => proc.internalConnWorker /= "none"

(***************************************************************************)
(* Cancellation                                                            *)
(***************************************************************************)
\* C24: once the context of a session is cancelled, the reads and writes
\* the session is blocked in, on the client stream and on the tunnel stream,
\* in the handshake of DialContext and in the join, are unblocked, and the
\* session ends.
C24_CancelEndsSession == env.cancelled ~> (pc = "done")

(***************************************************************************)
(* The joiner                                                              *)
(***************************************************************************)
\* both streams of the session are closed
BothClosed == userCloses > 0 /\ remote.closes > 0 /\ ctl.st = "closed"

\* C25: when either stream is closed during a join, once or several times,
\* the copy directions stop, the joiner closes both streams and returns; and
\* whenever the joiner has returned, both streams are closed.
C25_CloseEndsJoin ==
  /\ [](join.closed => (pc /= "join" /\ BothClosed))
  /\ (pc = "join" /\ join.broken /= {}) ~> (join.closed /\ pc = "done" /\ BothClosed)

\* the client stream was closed twice under the join, and the joiner returned
C25_Witness ==
  /\ join.closed
  /\ join.broken = {"client"}
  /\ join.breaks = 2
  /\ ~join.downDone
  /\ pc = "done"

\* the bytes of the relay writes on the client stream, in order
RECURSIVE RelayBytes(_)
RelayBytes(ws) ==
  IF ws = << >> THEN << >>
  ELSE (IF ws[1].kind = "relay" THEN ws[1].data ELSE << >>) \o RelayBytes(Tail(ws))

\* the number of client bytes that precede the first byte the joiner reads
JoinFrom ==
  IF proxyType = "target" THEN FirstSemi(input.bytes)
  ELSE IF proxyType = "http" THEN HeadLen
  ELSE Len(served) - Len(join.upRead)

PooledTunnel == proxyType \in {"socks5", "http"} /\ join.started /\ join.bytesPool

DialReturnedStream == dial.st = "returned" /\ dial.conn

\* C28: whenever DialContext has returned a stream, the read deadline that
\* was set on the control stream for the handshake response has been cleared;
\* it stays cleared while the stream is joined.
C28_DeadlineCleared ==
  DialReturnedStream => (ctl.armed = 1 /\ ~ctl.deadline)

\* a stream returned by DialContext is being joined and has carried bytes
C28_Witness ==
  /\ DialReturnedStream
  /\ ctl.armed = 1
  /\ pc = "join"
  /\ join.down /= << >>

(***************************************************************************)
(* The signature of the NewVisitorConn message                             *)
(***************************************************************************)
\* the NewVisitorConn messages written on the control stream
SentNewVisitorConn == {ctl.out[i] : i \in 1..Len(ctl.out)}

\* C29: every NewVisitorConn message sent carries the MD5 hex digest of the
\* secret key followed by the decimal form of the message's own Timestamp as
\* SignKey, the configured ServerName as ProxyName, and the target given to
\* DialContext as TargetAddr.
C29_MessageSigned ==
  \A m \in SentNewVisitorConn :
    /\ m.SignKey = Md5Hex(cfg.SecretKey \o Decimal(m.Timestamp))
    /\ m.ProxyName = cfg.ServerName
    /\ m.TargetAddr = dial.target

\* a message of ten decimal digits of time has been sent under a key of two
\* characters
C29_Witness ==
  /\ SentNewVisitorConn /= {}
  /\ \E m \in SentNewVisitorConn :
       /\ m.Timestamp = 1700000000
       /\ m.SignKey = <<"md5", <<"k", "1", "1", "7", "0", "0", "0", "0", "0", "0", "0", "0">>>>
       /\ m.ProxyName = "stcp-b"
       /\ m.TargetAddr = AddrA1

(***************************************************************************)
(* Strict loading of a configuration                                       *)
(***************************************************************************)
\* the keys of the loaded document that are no field of the configuration
UnknownKeysOf(d) == {d.entries[i].key : i \in 1..Len(d.entries)} \ KnownKeys

\* C30: LoadConfigure in strict mode returns an error naming an offending
\* key for every document with a key that is no field of the configuration,
\* and loads a document of known keys only into the matching fields with no
\* error.
C30_StrictLoad ==
  (conf.st = "loaded" /\ conf.strict) =>
    /\ UnknownKeysOf(conf.doc) /= {} =>
         (conf.result.err /\ conf.result.key \in UnknownKeysOf(conf.doc))
    /\ UnknownKeysOf(conf.doc) = {} =>
         /\ ~conf.result.err
         /\ conf.result.fields = {conf.doc.entries[i] : i \in 1..Len(conf.doc.entries)}

\* the strict-mode test on a JSON document: bindAdur in place of bindAddr,
\* after a known key
C30_Witness ==
  /\ conf.st = "loaded"
  /\ conf.strict
  /\ build = "later"
  /\ conf.doc.format = "json"
  /\ Len(conf.doc.entries) = 2
  /\ conf.doc.entries[1].key = "kcpBindPort"
  /\ conf.doc.entries[2].key = "bindAdur"
  /\ conf.result.err
  /\ conf.result.key = "bindAdur"

(***************************************************************************)
(* The transforms of the returned stream                                   *)
(***************************************************************************)
\* the NewVisitorConn message of the dial
DialMessage == ctl.out[Len(ctl.out)]

\* what the peer expects on the wire for the flags of a message: the bytes
\* compressed, then encrypted
WireFor(m, bytes) ==
  LET c == IF m.UseCompression THEN <<"compression", bytes>> ELSE bytes
  IN IF m.UseEncryption THEN <<"encryption", c>> ELSE c

\* C31: the transforms of the stream DialContext returned are those the
\* NewVisitorConn message of the same dial advertises; with both on, the
\* compressor lies over the cipher: written bytes are compressed and then
\* encrypted, read bytes are decrypted and then decompressed.
C31_TransformsAsAdvertised ==
  DialReturnedStream =>
    /\ Len(ctl.out) = 1
    /\ ("encryption" \in {remote.layers[i] : i \in 1..Len(remote.layers)})
         = DialMessage.UseEncryption
    /\ ("compression" \in {remote.layers[i] : i \in 1..Len(remote.layers)})
         = DialMessage.UseCompression
    /\ (DialMessage.UseEncryption /\ DialMessage.UseCompression)
         => remote.layers = <<"encryption", "compression">>
    /\ Len(remote.layers) <= 2
    /\ WriteThrough(remote.layers, join.up) = WireFor(DialMessage, join.up)
    /\ ReadThrough(remote.layers, WireFor(DialMessage, join.down)) = join.down

\* a stream with both transforms has carried client bytes
C31_Witness ==
  /\ DialReturnedStream
  /\ cfg.UseEncryption
  /\ cfg.UseCompression
  /\ remote.layers = <<"encryption", "compression">>
  /\ join.up /= << >>

(***************************************************************************)
(* One control stream per dial                                             *)
(***************************************************************************)
\* C32: every invocation of DialContext calls ConnectServer exactly once and
\* makes one NewVisitorConn/NewVisitorConnResp exchange on the stream it
\* got; no control stream is used by two dials, hence by two sessions; a
\* target session makes at most one dial.
C32_OneStreamPerDial ==
  /\ \A i \in 1..Len(proc.dials) :
       LET d == proc.dials[i]
       IN /\ d.connects <= 1
          /\ d.at /= "connect" => d.connects = 1
          /\ d.result = "stream" =>
               /\ proc.streams[d.conn].out = <<i>>
               /\ proc.streams[d.conn].reads = 1
  /\ \A k \in 1..Len(proc.streams) :
       /\ Cardinality(proc.streams[k].users) <= 1
       /\ Len(proc.streams[k].out) <= 1
       /\ proc.streams[k].reads <= 1
  /\ \A s \in 1..Len(proc.sessions) :
       ("kind" \in DOMAIN proc.sessions[s] /\ proc.sessions[s].kind = "target")
         => Cardinality(DialsOf(proc, s)) <= 1

\* two sessions have dialed at the same time, each got its stream, and one
\* of them, an HTTP session, has dialed again
C32_Witness ==
  /\ Len(proc.dials) = 3
  /\ proc.dials[1].session /= proc.dials[2].session
  /\ proc.dials[1].result = "stream"
  /\ proc.dials[2].result = "stream"
  /\ proc.dials[2].conn = 1
  /\ proc.dials[3].at = "read"

(***************************************************************************)
(* The deadline of the handshake read                                      *)
(***************************************************************************)
\* DialContext waits for the response of a rendezvous that never answers
AwaitsSilentPeer == pc = "dial_read" /\ env.silent

\* C33: if the rendezvous never answers the NewVisitorConn message, the
\* handshake read ends with a timeout error when its deadline fires, and
\* DialContext returns that error.
C33_HandshakeTimesOut ==
  AwaitsSilentPeer ~> (dial.st = "returned" /\ ~dial.conn /\ dial.err = "timeout")

\* DialContext has returned the timeout of the handshake read
C33_Witness ==
  /\ env.silent
  /\ dial.st = "returned"
  /\ dial.err = "timeout"
  /\ ctl.armed = 1
  /\ ctl.deadline

(***************************************************************************)
(* The registered prefixes                                                 *)
(***************************************************************************)
\* the prefixes that carry a tag in the trie under construction
RegisteredPrefixes == DOMAIN proc.trie.tag

\* C34: the prefixes registered in the demux trie are prefix-free: none is a
\* strict prefix of another, so no terminal node lies under another and the
\* shorter-wins rule never applies; no prefix is registered under two tags,
\* and whatever the order of the Put calls the trie is the one the muxer
\* builds.
C34_PrefixFree ==
  /\ \A p \in RegisteredPrefixes, q \in RegisteredPrefixes : p /= q => ~IsPrefix(p, q)
  /\ Cardinality(RegisteredPrefixes) = Cardinality(proc.puts)
  /\ \A r \in proc.puts : proc.trie.tag[r.prefix] = r.handler
  /\ proc.puts = Registrations => proc.trie = handlerTrie

\* all prefixes are registered, the one of the TARGET framing before the
\* last HTTP method
C34_Witness ==
  /\ proc.puts = Registrations
  /\ Cardinality(RegisteredPrefixes) = 16
  /\ proc.trie.tag[B_TARGET] = "target"
  /\ proc.trie.tag[<<5, 3>>] = "socks5"

(***************************************************************************)
(* The client stream on every exit path                                    *)
(***************************************************************************)
\* handleConn has returned after the error of the muxer, of ParseTargetHead
\* or of DialContext, after the join, or after a ServeConn
ExitPaths ==
  {<<proxyType, IF dial.calls = 0 THEN "before dial"
                ELSE IF ~dial.conn THEN "dial error"
                ELSE IF join.started THEN "join" ELSE "after dial">>}

C36_BindClosesBoth ==
  /\ bind.accepts <= 1
  /\ (pc = "done" /\ bind.listener /= "none") => bind.listener = "closed"
  /\ (pc = "done" /\ bind.conn /= "none") => bind.conn = "closed"

(***************************************************************************)
(* Source and target of a UDP association                                  *)
(***************************************************************************)
\* the datagrams of the source whose destination readAddr can decode
Decodable ==
  {i \in 1..Len(udp.recvd) :
     FromSource(i) /\ Len(udp.recvd[i].data) >= 3 /\ Decoded(i).ok}

\* C37: the source of a UDP association is the sender of the first datagram
\* received, whatever that datagram holds, and the target is the first
\* destination that can be decoded from a datagram of the source; neither
\* changes afterwards; a datagram from an address that is neither is never
\* forwarded, and a datagram of the source for another destination than the
\* target is never forwarded.
C37_SourceAndTargetFixed ==
  /\ [](/\ udp.recvd /= << >> => udp.source = udp.recvd[1].from
        /\ udp.recvd = << >> => (udp.source = << >> /\ udp.target = << >>)
        /\ IF Decodable = {}
           THEN udp.target = << >> /\ udp.targetBy = 0
           ELSE /\ udp.targetBy \in Decodable
                /\ \A i \in Decodable : udp.targetBy <= i
                /\ udp.target = Decoded(udp.targetBy).addr
        /\ \A i \in 1..Len(udp.recvd) :
             /\ (~FromSource(i) /\ udp.recvd[i].from /= udp.target)
                  => (ToTargetOf(i) = {} /\ ToSourceOf(i) = {})
             /\ (i \in Decodable /\ Decoded(i).addr /= udp.target)
                  => (ToTargetOf(i) = {} /\ ToSourceOf(i) = {}))
  /\ [][/\ udp.source /= << >> => udp'.source = udp.source
        /\ udp.target /= << >> => udp'.target = udp.target]_vars

\* the first datagram was too short to hold a header and still fixed the
\* source; the next one, of the source, fixed the target and was forwarded
C37_Witness ==
  /\ Len(udp.recvd) = 2
  /\ udp.recvd[1].data = <<0, 0>>
  /\ udp.source = CAddr
  /\ udp.targetBy = 2
  /\ udp.target = T1
  /\ ToTargetOf(2) /= {}

(***************************************************************************)
(* The compression state during a join                                     *)
(***************************************************************************)
\* C38: the compression state of a tunnel stream is not released to the pool
\* while a copy direction of the join can still read from or write to the
\* stream: whenever it has been released, both directions have stopped.
C38_ReleaseAfterCopies ==
  (join.started /\ pool.recycled > 0) => (join.upDone /\ join.downDone)
(***************************************************************************)
(* SOCKS5 UDP ASSOCIATE: the header is prepended inside the packet buffer  *)
(***************************************************************************)
\* C39: relaying a datagram of the target never indexes outside the packet
\* buffer: for every datagram that ReadFrom returned from the target, the
\* length of replyPrefix plus the length of the datagram is at most
\* maxUdpPacket, and the header-prepend step never ends the session.
C39_PrependInsideBuffer ==
  /\ \A i \in 1..Len(udp.recvd) :
       FromTarget(i) => PrependInRange(udp.target, udp.recvd[i].data)
  /\ IsAssoc => pc /= "panic"

====
